---------------------------- MODULE Spec2Model ----------------------------
(***************************************************************************)
(* Gold-DeFi-Market: the data-acquisition and decision layer.              *)
(*                                                                         *)
(*   - withRetry            (src/src/utils/retry.ts)                       *)
(*   - MarketAggregator     (src/unnamed/part_011)                         *)
(*   - the protocol adapters (src/src/adapters/*.ts)                       *)
(*   - RecommendationEngine (src/src/types/react-gauge-chart.d.ts, l. 30+) *)
(*                                                                         *)
(* Numbers.  The program computes with IEEE doubles; the model computes    *)
(* with exact fixed-point integers:                                        *)
(*   availableLiquidity, minLiquidity : hundredths of a token unit         *)
(*   borrowAPR, maxAcceptableAPR      : hundredths of a percent            *)
(*   maxLTV, liquidationThreshold,                                         *)
(*   minLiquidationBuffer             : basis points (1/10000)             *)
(* so 0.80 is 8000, 3% is 300 and 1,000,000 units is 100000000.            *)
(***************************************************************************)
EXTENDS Integers, Sequences, FiniteSets, TLC

VARIABLES
    \* ---- RecommendationEngine ----
    criteria,          \* this.criteria
    markets,           \* the argument of analyzeMarkets
    recommendations,   \* the list analyzeMarkets returned
    analyzed,          \* TRUE once analyzeMarkets has returned
    \* ---- withRetry, one record per running call ----
    calls,             \* call id -> state of that withRetry call
    log,               \* call id -> sequence of events of that call
    \* ---- MarketAggregator.fetchAllMarkets ----
    collateral,        \* the argument of fetchAllMarkets
    aggPc,             \* "idle" | "joining" | "done"
    allMarkets,        \* the list fetchAllMarkets returned
    \* ---- one adapter's fetchMarkets(collateral, chain) ----
    onchain,           \* what the contracts answer
    fetch,             \* the call: adapter, chain, fates, outcome
    \* ---- utils/provider.ts ----
    providerCache,         \* chain -> cached connection
    lastSuccessfulEndpoint,\* chain -> endpoint last verified
    getCalls,              \* the getProvider calls, in invocation order
    \* ---- MarketAggregator.fetchMarketsByChain ----
    rejections,        \* task -> rejections of fetchMarkets before it resolves
    byChain            \* the fetchMarketsByChain call

vars == <<criteria, markets, recommendations, analyzed,
          calls, log, collateral, aggPc, allMarkets,
          onchain, fetch, providerCache, lastSuccessfulEndpoint, getCalls,
          rejections, byChain>>

engineVars == <<criteria, markets, recommendations, analyzed>>
retryVars  == <<calls, log>>
aggVars    == <<collateral, aggPc, allMarkets>>
adapterVars  == <<onchain, fetch>>
providerVars == <<providerCache, lastSuccessfulEndpoint, getCalls>>
byChainVars  == <<rejections, byChain>>

(***************************************************************************)
(* Domain types (src/src/types/index.ts)                                   *)
(***************************************************************************)
CollateralToken == {"XAUT", "PAXG", "KAU", "PMGT", "DGX", "GOLD"}
Protocol        == {"Aave", "Morpho", "Fluid"}
Chain           == {"Ethereum", "Arbitrum", "Optimism", "Polygon"}

Max(a, b) == IF a >= b THEN a ELSE b
Min(a, b) == IF a <= b THEN a ELSE b

(***************************************************************************)
(* RecommendationEngine (src/src/types/react-gauge-chart.d.ts, l. 42-162)  *)
(*                                                                         *)
(* A message is modelled by its kind (the text before the first number);   *)
(* the numbers formatted into it are not part of the model.                *)
(***************************************************************************)

\* Thresholds written as literals in evaluateMarket, in model units.
ExcellentLiquidity == 100000000   \* 1000000 units            (l. 90)
ExcellentAPR       == 300         \* 3 %                      (l. 101)
GoodAPR            == 500         \* 5 %                      (l. 104)
HighLTV            == 8000        \* 0.80                     (l. 126)
LowLTV             == 6000        \* 0.60                     (l. 129)
StartScore         == 100         \* let score = 100          (l. 82)
MinScore           == 0           \* Math.max(0, ...)         (l. 153)
MaxScore           == 100         \* Math.min(100, ...)       (l. 153)

\* config.app defaults (src/unnamed/part_010, l. 174-176), in model units.
DefaultMinLiquidity         == 1000000    \* 10000 units
DefaultMaxAPR               == 1500       \* 15 %
DefaultMinLiquidationBuffer == 500        \* 0.05

DefaultCriteria ==
    [minLiquidity         |-> DefaultMinLiquidity,
     maxAcceptableAPR     |-> DefaultMaxAPR,
     minLiquidationBuffer |-> DefaultMinLiquidationBuffer]

\* The accumulator of evaluateMarket: its three locals.
StartAcc == [score |-> StartScore, reasons |-> <<>>, warnings |-> <<>>]

\* The score lowered without recording the warning.
PenaltyWithoutWarning(acc, n, w) == [acc EXCEPT !.score = @ - n]

Penalty(acc, n, w) ==
    [acc EXCEPT !.score = @ - n, !.warnings = Append(@, w)]
Bonus(acc, n, r) ==
    [acc EXCEPT !.score = @ + n, !.reasons = Append(@, r)]

\* 1. Check liquidity (l. 85-95)
CheckLiquidityWarnsAsReason(acc, borrowAsset, crit) ==
    IF borrowAsset.availableLiquidity < crit.minLiquidity
    THEN Bonus(acc, -40, "Low liquidity")
    ELSE IF borrowAsset.availableLiquidity > ExcellentLiquidity
    THEN Bonus(acc, 10, "Excellent liquidity")
    ELSE Bonus(acc, 0, "Good liquidity")

CheckLiquidity(acc, borrowAsset, crit) ==
    IF borrowAsset.availableLiquidity < crit.minLiquidity
    THEN Penalty(acc, 40, "Low liquidity")
    ELSE IF borrowAsset.availableLiquidity > ExcellentLiquidity
    THEN Bonus(acc, 10, "Excellent liquidity")
    ELSE Bonus(acc, 0, "Good liquidity")

\* 2. Check borrow APR (l. 98-109)
CheckBorrowAPRBonusFirst(acc, borrowAsset, crit) ==
    IF borrowAsset.borrowAPR < ExcellentAPR
    THEN Bonus(acc, 15, "Excellent borrow rate")
    ELSE IF borrowAsset.borrowAPR < GoodAPR
    THEN Bonus(acc, 5, "Good borrow rate")
    ELSE IF borrowAsset.borrowAPR > crit.maxAcceptableAPR
    THEN Penalty(acc, 30, "High borrow rate")
    ELSE Bonus(acc, 0, "Moderate borrow rate")

CheckBorrowAPR(acc, borrowAsset, crit) ==
    IF borrowAsset.borrowAPR > crit.maxAcceptableAPR
    THEN Penalty(acc, 30, "High borrow rate")
    ELSE IF borrowAsset.borrowAPR < ExcellentAPR
    THEN Bonus(acc, 15, "Excellent borrow rate")
    ELSE IF borrowAsset.borrowAPR < GoodAPR
    THEN Bonus(acc, 5, "Good borrow rate")
    ELSE Bonus(acc, 0, "Moderate borrow rate")

\* The buffer clamped at zero before the comparison.
CheckLiquidationBufferClamped(acc, market, crit) ==
    LET liquidationBuffer == Max(0, market.liquidationThreshold - market.maxLTV)
    IN  IF liquidationBuffer < crit.minLiquidationBuffer
        THEN Penalty(acc, 25, "Tight liquidation buffer")
        ELSE Bonus(acc, 5, "Safe liquidation buffer")

\* 3. Check liquidation buffer (l. 112-123)
CheckLiquidationBuffer(acc, market, crit) ==
    LET liquidationBuffer == market.liquidationThreshold - market.maxLTV
    IN  IF liquidationBuffer < crit.minLiquidationBuffer
        THEN Penalty(acc, 25, "Tight liquidation buffer")
        ELSE Bonus(acc, 5, "Safe liquidation buffer")

\* The LTV rows the other way round.
CheckMaxLTVInverted(acc, market) ==
    IF market.maxLTV < LowLTV
    THEN Bonus(acc, 5, "High capital efficiency")
    ELSE IF market.maxLTV >= HighLTV
    THEN Penalty(acc, 10, "Low capital efficiency")
    ELSE acc

\* 4. Check max LTV (l. 126-132)
CheckMaxLTV(acc, market) ==
    IF market.maxLTV >= HighLTV
    THEN Bonus(acc, 5, "High capital efficiency")
    ELSE IF market.maxLTV < LowLTV
    THEN Penalty(acc, 10, "Low capital efficiency")
    ELSE acc

\* 5. Protocol reputation bonus (l. 135-141)
CheckProtocol(acc, market) ==
    IF market.protocol = "Aave"
    THEN Bonus(acc, 10, "Battle-tested protocol")
    ELSE IF market.protocol = "Morpho"
    THEN Bonus(acc, 5, "Efficient protocol")
    ELSE acc

\* 6. Chain considerations (l. 144-150)
CheckChain(acc, market) ==
    IF market.chain = "Ethereum"
    THEN Bonus(acc, 5, "Ethereum mainnet")
    ELSE IF market.chain = "Arbitrum"
    THEN Bonus(acc, 3, "Arbitrum")
    ELSE acc

\* score = Math.max(0, Math.min(100, score)) (l. 153)
ClampScoreLowerOnly(score) == Max(MinScore, score)

ClampScore(score) == Max(MinScore, Min(MaxScore, score))

\* The score before the clamp, with the messages (l. 80-150).
RawEvaluation(market, borrowAsset, crit) ==
    LET a1 == CheckLiquidity(StartAcc, borrowAsset, crit)
        a2 == CheckBorrowAPR(a1, borrowAsset, crit)
        a3 == CheckLiquidationBuffer(a2, market, crit)
        a4 == CheckMaxLTV(a3, market)
        a5 == CheckProtocol(a4, market)
    IN  CheckChain(a5, market)

\* evaluateMarket (l. 76-162).  src is the position of the pair in the input
\* (market index, borrow asset index): the recommendation holds references to
\* the input's own market and borrowAsset objects.
evaluateMarket(market, borrowAsset, crit, src) ==
    LET raw == RawEvaluation(market, borrowAsset, crit)
    IN  [market      |-> market,
         borrowAsset |-> borrowAsset,
         score       |-> ClampScore(raw.score),
         reasons     |-> raw.reasons,
         warnings    |-> raw.warnings,
         src         |-> src]

\* The nested loops of analyzeMarkets (l. 61-66), from market mi on.
RECURSIVE EvaluateFromFirstAssetOnly(_, _, _)
EvaluateFromFirstAssetOnly(ms, crit, mi) ==
    IF mi > Len(ms) THEN <<>>
    ELSE (IF Len(ms[mi].borrowAssets) = 0 THEN <<>>
          ELSE <<evaluateMarket(ms[mi], ms[mi].borrowAssets[1], crit, <<mi, 1>>)>>)
         \o EvaluateFromFirstAssetOnly(ms, crit, mi + 1)

RECURSIVE EvaluateFrom(_, _, _)
EvaluateFrom(ms, crit, mi) ==
    IF mi > Len(ms) THEN <<>>
    ELSE [ai \in 1..Len(ms[mi].borrowAssets) |->
              evaluateMarket(ms[mi], ms[mi].borrowAssets[ai], crit, <<mi, ai>>)]
         \o EvaluateFrom(ms, crit, mi + 1)

\* The comparator handed to sort: (a, b) => b.score - a.score (l. 69).
CompareByScoreAscending(a, b) == a.score - b.score

CompareByScore(a, b) == b.score - a.score

\* Array.prototype.sort is a stable sort (ECMAScript 2019): an element is
\* placed after every element the comparator does not order after it.
RECURSIVE InsertSorted(_, _)
InsertSorted(s, x) ==
    IF s = <<>> THEN <<x>>
    ELSE IF CompareByScore(Head(s), x) <= 0
         THEN <<Head(s)>> \o InsertSorted(Tail(s), x)
         ELSE <<x>> \o s

RECURSIVE SortFrom(_, _, _)
SortFrom(sorted, s, i) ==
    IF i > Len(s) THEN sorted
    ELSE SortFrom(InsertSorted(sorted, s[i]), s, i + 1)

SortByScore(s) == SortFrom(<<>>, s, 1)

\* analyzeMarkets (l. 58-70)
analyzeMarkets(ms, crit) == SortByScore(EvaluateFrom(ms, crit, 1))

(***************************************************************************)
(* The engine's inputs.                                                    *)
(***************************************************************************)
MaxMarkets == 2     \* markets in one analysis pass
MaxAssets  == 2     \* borrow assets of one market

\* Criteria: the configured defaults, thresholds so strict that a penalty row
\* and a bonus row of one factor hold together, thresholds nothing fails, and
\* a negative minimum buffer.
CriteriaSet ==
    { DefaultCriteria,
      [minLiquidity |-> 150000000, maxAcceptableAPR |-> 200,
       minLiquidationBuffer |-> 1000],
      [minLiquidity |-> 0, maxAcceptableAPR |-> 10000,
       minLiquidationBuffer |-> 0],
      [minLiquidity |-> 1000000, maxAcceptableAPR |-> 1500,
       minLiquidationBuffer |-> -300] }

LiquidityValues == {0, 500000, 999999, 1000000, 50000000, 100000000,
                    100000001, 200000000}
APRValues       == {0, 250, 299, 300, 400, 500, 1000, 1500, 1501, 2000}
LTVValues       == {5500, 5999, 6000, 7500, 8000, 8200}
\* liquidationThreshold - maxLTV; negative for a market that violates
\* liquidationThreshold >= maxLTV.
BufferValues    == {-200, 0, 499, 500, 1000}

MkAsset(sym, liq, apr) ==
    [symbol |-> sym, borrowAPR |-> apr, availableLiquidity |-> liq]

MkMarket(p, c, col, ltv, lt, assets) ==
    [protocol |-> p, chain |-> c, collateral |-> col,
     borrowAssets |-> assets, maxLTV |-> ltv, liquidationThreshold |-> lt]

\* Every single (market, borrowAsset) pair over the value sets.
SinglePairInputs ==
    { <<MkMarket(p, c, "XAUT", ltv, ltv + buf, <<MkAsset("USDC", liq, apr)>>)>> :
        p \in Protocol, c \in Chain, ltv \in LTVValues, buf \in BufferValues,
        liq \in LiquidityValues, apr \in APRValues }

\* A few markets and assets to build lists from: scores tie and differ.
MarketTemplates ==
    { MkMarket("Aave", "Ethereum", "XAUT", 7500, 8000, <<>>),
      MkMarket("Fluid", "Optimism", "XAUT", 5500, 5700, <<>>) }

AssetTemplates ==
    { MkAsset("USDC", 200000000, 250),
      MkAsset("DAI", 500000, 2000) }

\* Two candidates that differ only in the market's maxLTV, the lower first.
ThresholdValues == {5800, 7000, 8000, 8500}

LTVPairInputs ==
    { <<MkMarket(p, c, "XAUT", q[1], lt, <<a>>),
        MkMarket(p, c, "XAUT", q[2], lt, <<a>>)>> :
        p \in Protocol, c \in Chain, lt \in ThresholdValues,
        a \in AssetTemplates,
        q \in {r \in LTVValues \X LTVValues : r[1] < r[2]} }

(***************************************************************************)
(* Actions of the engine                                                   *)
(***************************************************************************)
\* The caller appends a market to the list it will pass.
AddMarket(m) ==
    /\ ~analyzed
    /\ Len(markets) < MaxMarkets
    /\ markets' = Append(markets, m)
    /\ UNCHANGED <<criteria, recommendations, analyzed>>
    /\ UNCHANGED <<retryVars, aggVars>>
    /\ UNCHANGED <<adapterVars, providerVars, byChainVars>>

\* The caller appends a borrow asset to the last market of the list.
AddBorrowAsset(a) ==
    /\ ~analyzed
    /\ Len(markets) > 0
    /\ Len(markets[Len(markets)].borrowAssets) < MaxAssets
    /\ markets' = [markets EXCEPT ![Len(markets)].borrowAssets = Append(@, a)]
    /\ UNCHANGED <<criteria, recommendations, analyzed>>
    /\ UNCHANGED <<retryVars, aggVars>>
    /\ UNCHANGED <<adapterVars, providerVars, byChainVars>>

\* engine.analyzeMarkets(markets)
AnalyzeMarkets ==
    /\ ~analyzed
    /\ recommendations' = analyzeMarkets(markets, criteria)
    /\ analyzed' = TRUE
    /\ UNCHANGED <<criteria, markets>>
    /\ UNCHANGED <<retryVars, aggVars>>
    /\ UNCHANGED <<adapterVars, providerVars, byChainVars>>

(***************************************************************************)
(* withRetry (src/src/utils/retry.ts, l. 22-57)                            *)
(*                                                                         *)
(* calls[c] holds the locals of one running withRetry call:                *)
(*   maxRetries, attempt, lastError, and pc:                               *)
(*     "attempt"  : awaiting fn()                       (l. 33)            *)
(*     "sleeping" : awaiting sleep(delay)               (l. 52)            *)
(*     "returned" : the call resolved with result       (l. 33)            *)
(*     "thrown"   : the call rejected with lastError    (l. 56)            *)
(* log[c] records what the call did, in order:                             *)
(*   <<"call", k>>     fn was invoked in iteration k                       *)
(*   <<"ok", k, v>>    that invocation resolved with v                     *)
(*   <<"fail", k, x>>  that invocation threw or rejected with x            *)
(*   <<"sleep", k>>    sleep(delay) was started in iteration k             *)
(* The length of the delay (backoff and jitter, l. 42-44) and the onRetry  *)
(* hook (l. 46-50, logging only) do not act on the state and are left out. *)
(***************************************************************************)
DefaultMaxRetries == 3      \* DEFAULT_OPTIONS.maxRetries (l. 14)

\* lastError = null (l. 29)
NoError == [isError |-> FALSE, name |-> "null", message |-> ""]
NoValue == [kind |-> "none", v |-> "none"]

\* error instanceof Error ? error : new Error(String(error))  (l. 35)
ToError(x) ==
    IF x.isError THEN x
    ELSE [isError |-> TRUE, name |-> "Error", message |-> x.message]

\* lastError = ...  (l. 35): the new value of lastError, given the old one.
NextLastErrorKeepsFirst(prev, x) == IF prev # NoError THEN prev ELSE ToError(x)

NextLastError(prev, x) == ToError(x)

\* The locals at entry: the options merged over the defaults (l. 26-29) and
\* attempt = 0 (l. 31).
NewCall(maxRetries) ==
    [maxRetries |-> maxRetries, attempt |-> 0, pc |-> "attempt",
     lastError |-> NoError, result |-> NoValue]

\* The loop condition attempt <= maxRetries is decided here: the catch
\* block breaks out of the loop when attempt === maxRetries (l. 37-39).
IsLastAttempt(call) == call.attempt = call.maxRetries

\* What happens to the call when fn() rejects with x (l. 34-53).
OnFailureSleepsAlways(call, x) ==
    [call EXCEPT !.lastError = NextLastError(@, x), !.pc = "sleeping"]

OnFailure(call, x) ==
    [call EXCEPT !.lastError = NextLastError(@, x),
                 !.pc = IF IsLastAttempt(call) THEN "thrown" ELSE "sleeping"]

\* What happens to the call when fn() resolves with v (l. 33).
OnSuccess(call, v) == [call EXCEPT !.result = v, !.pc = "returned"]

\* The events a failure adds to the log: the failure, then the sleep that
\* the call starts when it goes on (l. 52).
FailureEvents(call, x) ==
    LET after == OnFailure(call, x)
    IN  <<<<"fail", call.attempt, x>>>> \o
        (IF after.pc = "sleeping" THEN <<<<"sleep", call.attempt>>>> ELSE <<>>)

(***************************************************************************)
(* Actions of withRetry.  Fn(c) is the operation handed to call c: the set *)
(* of values fn() may resolve with and the set of values it may throw.     *)
(***************************************************************************)
StandaloneCall == 0       \* the id of a withRetry call made on its own
MaxRetriesBound == 3      \* largest maxRetries of a standalone call

StandaloneValues == {[kind |-> "value", v |-> "a"], [kind |-> "value", v |-> "b"]}
\* Error objects of two kinds, and a thrown value that is not an Error.
StandaloneThrows ==
    { [isError |-> TRUE, name |-> "Error", message |-> "timeout"],
      [isError |-> TRUE, name |-> "TypeError", message |-> "bad config"],
      [isError |-> FALSE, name |-> "string", message |-> "boom"] }

(***************************************************************************)
(* On-chain state read by the adapters.  The model's chain holds small     *)
(* integers: token decimals are 2 and 3 where the real tokens have 6 and   *)
(* 18, and a borrow rate is held in units of 10^21 ray.                    *)
(***************************************************************************)
\* onchain.given = FALSE: the contracts answer with the fixed values below;
\* onchain.given = TRUE: they answer with the values onchain holds.
DefaultOnChain ==
    [given |-> FALSE, ltv |-> 0, liquidationThreshold |-> 0,
     availableLiquidity |-> 0, variableBorrowRate |-> 0,
     totalSupplyAssets |-> 0, totalBorrowAssets |-> 0, balance |-> 0]

\* getReserveConfigurationData(collateralAddress): ltv and
\* liquidationThreshold in basis points.
ReserveConfigurationData(chain, col) ==
    IF onchain.given
    THEN [ltv |-> onchain.ltv, liquidationThreshold |-> onchain.liquidationThreshold]
    ELSE IF chain = "Ethereum"
    THEN IF col = "XAUT" THEN [ltv |-> 7500, liquidationThreshold |-> 8000]
                         ELSE [ltv |-> 7000, liquidationThreshold |-> 7800]
    ELSE [ltv |-> 8000, liquidationThreshold |-> 8250]

\* decimals() of a token.
TokenDecimals(sym) == IF sym \in {"USDC", "USDT"} THEN 2 ELSE 3

\* getReserveData(asset.address): availableLiquidity in native decimals and
\* variableBorrowRate.
ReserveData(chain, sym) ==
    LET base == CASE sym = "USDC" -> [availableLiquidity |-> 250000000,
                                      variableBorrowRate |-> 42500]
                  [] sym = "USDT" -> [availableLiquidity |-> 90000050,
                                      variableBorrowRate |-> 51000]
                  [] sym = "DAI"  -> [availableLiquidity |-> 800000000,
                                      variableBorrowRate |-> 160000]
                  [] OTHER        -> [availableLiquidity |-> 5000999,
                                      variableBorrowRate |-> 27500]
    IN  IF onchain.given
        THEN [availableLiquidity |-> onchain.availableLiquidity,
              variableBorrowRate |-> onchain.variableBorrowRate]
        ELSE IF chain = "Ethereum" THEN base
        ELSE [base EXCEPT !.variableBorrowRate = @ + 10000]

\* Morpho.market(id): totalSupplyAssets and totalBorrowAssets.
MorphoMarketData(id) ==
    IF onchain.given
    THEN [totalSupplyAssets |-> onchain.totalSupplyAssets,
          totalBorrowAssets |-> onchain.totalBorrowAssets]
    ELSE [totalSupplyAssets |-> 4000000, totalBorrowAssets |-> 1000000]

\* balanceOf(vaultAddress) of the vault's loan token.
VaultBalance(vault) ==
    IF onchain.given THEN onchain.balance
    ELSE CASE vault = "xaut-usdc-vault" -> 150000000
           [] vault = "xaut-dai-vault"  -> 200000000
           [] vault = "paxg-usdc-vault" -> 50000000
           [] OTHER                     -> 9000000

RECURSIVE Pow10(_)
Pow10(n) == IF n = 0 THEN 1 ELSE 10 * Pow10(n - 1)

\* Number(ethers.formatUnits(raw, decimals)), in hundredths of a unit;
\* digits below a hundredth are dropped.
FormatUnits(raw, decimals) ==
    IF decimals >= 2 THEN raw \div Pow10(decimals - 2)
    ELSE raw * Pow10(2 - decimals)

\* Number(rate) / 1e25, in hundredths of a percent (AaveAdapter.ts l. 179).
RayToAPR(rate) == rate \div 100

(***************************************************************************)
(* An adapter call is given the fate of each contract call it makes:       *)
(* rpc[key] is the number of times that call fails before it succeeds.     *)
(***************************************************************************)
\* ---- AaveAdapter (src/src/adapters/AaveAdapter.ts) ----
AaveChains == <<"Ethereum", "Arbitrum", "Optimism">>        \* l. 28-53
AaveCollateralChains == {"Ethereum", "Arbitrum"}            \* l. 55-70
AaveCollaterals == {"XAUT", "PAXG"}                         \* l. 59-60
AaveBorrowAssets(chain) ==                                  \* l. 73-92
    IF chain \in {"Ethereum", "Arbitrum"}
    THEN <<"USDC", "USDT", "DAI", "WETH">> ELSE <<>>

InSeq(x, s) == \E i \in 1..Len(s) : s[i] = x

\* The contract calls of one Aave fetch.
AaveKeys(chain) ==
    {"config"} \cup {AaveBorrowAssets(chain)[i] : i \in 1..Len(AaveBorrowAssets(chain))}

\* One borrow asset (l. 171-189); the calls are not repeated.
AaveBorrowAsset(chain, sym) ==
    LET reserveData == ReserveData(chain, sym)
        decimals    == TokenDecimals(sym)
    IN  [symbol |-> sym,
         borrowAPR |-> RayToAPR(reserveData.variableBorrowRate),
         availableLiquidity |-> FormatUnits(reserveData.availableLiquidity, decimals)]

\* fetchBorrowAssets (l. 158-196): an asset whose fetch throws is skipped.
RECURSIVE AaveFetchBorrowAssetsZeroed(_, _, _)
AaveFetchBorrowAssetsZeroed(chain, rpc, i) ==
    LET assets == AaveBorrowAssets(chain)
    IN  IF i > Len(assets) THEN <<>>
        ELSE (IF rpc[assets[i]] = 0
              THEN <<AaveBorrowAsset(chain, assets[i])>>
              ELSE <<MkAsset(assets[i], 0, 0)>>)
             \o AaveFetchBorrowAssetsZeroed(chain, rpc, i + 1)

RECURSIVE AaveFetchBorrowAssetsFrom(_, _, _)
AaveFetchBorrowAssetsFrom(chain, rpc, i) ==
    LET assets == AaveBorrowAssets(chain)
    IN  IF i > Len(assets) THEN <<>>
        ELSE (IF rpc[assets[i]] = 0
              THEN <<AaveBorrowAsset(chain, assets[i])>> ELSE <<>>)
             \o AaveFetchBorrowAssetsFrom(chain, rpc, i + 1)

AaveFetchBorrowAssets(chain, rpc) == AaveFetchBorrowAssetsFrom(chain, rpc, 1)

\* fetchMarkets (l. 102-156)
AaveFetchMarkets(col, chain, rpc) ==
    IF ~InSeq(chain, AaveChains) THEN <<>>                          \* l. 104-107
    ELSE IF ~(chain \in AaveCollateralChains /\ col \in AaveCollaterals)
    THEN <<>>                                                       \* l. 110-113
    ELSE IF rpc["config"] # 0 THEN <<>>                             \* l. 152-155
    ELSE LET cfg == ReserveConfigurationData(chain, col)
         IN  <<MkMarket("Aave", chain, col, cfg.ltv, cfg.liquidationThreshold,
                        AaveFetchBorrowAssets(chain, rpc))>>

\* ---- MorphoAdapter (src/src/adapters/MorphoAdapter.ts) ----
MorphoChains == <<"Ethereum">>                              \* l. 34-42

\* knownMarkets (l. 47-75); lltv 0.80 in basis points.
MorphoKnownMarkets ==
    << [id |-> "xaut-usdc-eth", collateral |-> "XAUT", loanToken |-> "USDC",
        chain |-> "Ethereum", lltv |-> 8000] >>

\* relevantMarkets (l. 99-101)
MorphoRelevantMarkets(col, chain) ==
    SelectSeq(MorphoKnownMarkets,
              LAMBDA m : m.collateral = col /\ m.chain = chain)

MorphoKeys(col, chain) ==
    IF ~InSeq(chain, MorphoChains) THEN {}
    ELSE {MorphoRelevantMarkets(col, chain)[i].id :
             i \in 1..Len(MorphoRelevantMarkets(col, chain))}

\* estimateBorrowAPR (l. 184-189) of the utilization rate (l. 136-137):
\* 2 + 10 * borrowed / (supplied || 1), in hundredths of a percent.
MorphoBorrowAPR(totalSupplyAssets, totalBorrowAssets) ==
    200 + (1000 * totalBorrowAssets)
            \div (IF totalSupplyAssets = 0 THEN 1 ELSE totalSupplyAssets)

\* One market (l. 113-165)
MorphoMarket(col, chain, marketInfo) ==
    LET marketData == MorphoMarketData(marketInfo.id)
        decimals   == TokenDecimals(marketInfo.loanToken)
        availableLiquidity ==
            FormatUnits(marketData.totalSupplyAssets - marketData.totalBorrowAssets,
                        decimals)
        borrowAPR == MorphoBorrowAPR(marketData.totalSupplyAssets,
                                     marketData.totalBorrowAssets)
        liquidationThreshold == marketInfo.lltv
        maxLTV == (liquidationThreshold * 95) \div 100
    IN  MkMarket("Morpho", chain, col, maxLTV, liquidationThreshold,
                 <<MkAsset(marketInfo.loanToken, availableLiquidity, borrowAPR)>>)

RECURSIVE MorphoFetchFrom(_, _, _, _)
MorphoFetchFrom(col, chain, rpc, i) ==
    LET relevant == MorphoRelevantMarkets(col, chain)
    IN  IF i > Len(relevant) THEN <<>>
        ELSE (IF rpc[relevant[i].id] = 0
              THEN <<MorphoMarket(col, chain, relevant[i])>> ELSE <<>>)
             \o MorphoFetchFrom(col, chain, rpc, i + 1)

\* fetchMarkets (l. 85-178)
MorphoFetchMarkets(col, chain, rpc) ==
    IF ~InSeq(chain, MorphoChains) THEN <<>>                        \* l. 87-90
    ELSE MorphoFetchFrom(col, chain, rpc, 1)

\* ---- FluidAdapter (src/src/adapters/FluidAdapter.ts) ----
FluidChains == <<"Ethereum">>                               \* l. 31-39
FluidMaxRetries == 3                                        \* l. 209

\* knownVaults (l. 43-165); maxLTV and liquidationThreshold in basis points.
FluidVault(id, col, loanToken, ltv, lt) ==
    [id |-> id, collateral |-> col, loanToken |-> loanToken,
     chain |-> "Ethereum", maxLTV |-> ltv, liquidationThreshold |-> lt]

FluidKnownVaults ==
    << FluidVault("xaut-usdc-vault", "XAUT", "USDC", 7500, 8000),
       FluidVault("xaut-dai-vault",  "XAUT", "DAI",  7000, 7800),
       FluidVault("paxg-usdc-vault", "PAXG", "USDC", 7500, 8000),
       FluidVault("paxg-weth-vault", "PAXG", "WETH", 6500, 7500),
       FluidVault("kau-usdc-vault",  "KAU",  "USDC", 6500, 7200),
       FluidVault("dgx-usdc-vault",  "DGX",  "USDC", 6000, 7000),
       FluidVault("pmgt-usdc-vault", "PMGT", "USDC", 7000, 7800),
       FluidVault("pmgt-dai-vault",  "PMGT", "DAI",  6800, 7600) >>

\* relevantVaults (l. 186-188)
FluidRelevantVaults(col, chain) ==
    SelectSeq(FluidKnownVaults,
              LAMBDA v : v.collateral = col /\ v.chain = chain)

FluidKeys(col, chain) ==
    IF ~InSeq(chain, FluidChains) THEN {}
    ELSE {FluidRelevantVaults(col, chain)[i].id :
             i \in 1..Len(FluidRelevantVaults(col, chain))}

\* estimateBorrowAPR (l. 252-257), in hundredths of a percent.
FluidBorrowAPR(availableLiquidity) ==
    IF availableLiquidity > 100000000 THEN 350
    ELSE IF availableLiquidity > 10000000 THEN 450
    ELSE 600

\* One vault (l. 198-235)
FluidMarket(col, chain, vaultInfo) ==
    LET decimals == TokenDecimals(vaultInfo.loanToken)
        availableLiquidity == FormatUnits(VaultBalance(vaultInfo.id), decimals)
    IN  MkMarket("Fluid", chain, col, vaultInfo.maxLTV,
                 vaultInfo.liquidationThreshold,
                 <<MkAsset(vaultInfo.loanToken, availableLiquidity,
                           FluidBorrowAPR(availableLiquidity))>>)

\* The vault's calls run under withRetry({maxRetries: 3}) (l. 200-209): they
\* yield a value unless they fail more than maxRetries times in a row.
RECURSIVE FluidFetchFrom(_, _, _, _)
FluidFetchFrom(col, chain, rpc, i) ==
    LET relevant == FluidRelevantVaults(col, chain)
    IN  IF i > Len(relevant) THEN <<>>
        ELSE (IF rpc[relevant[i].id] <= FluidMaxRetries
              THEN <<FluidMarket(col, chain, relevant[i])>> ELSE <<>>)
             \o FluidFetchFrom(col, chain, rpc, i + 1)

\* fetchMarkets (l. 175-246)
FluidFetchMarkets(col, chain, rpc) ==
    IF ~InSeq(chain, FluidChains) THEN <<>>                         \* l. 177-180
    ELSE FluidFetchFrom(col, chain, rpc, 1)

(***************************************************************************)
(* One fetchMarkets call followed through its try blocks.                  *)
(*                                                                         *)
(* The repository holds two Aave adapters: src/src/adapters/AaveAdapter.ts *)
(* ("Aave": its own JsonRpcProvider, no withRetry) and src/unnamed/part_009 *)
(* ("AaveRetry": getProvider and withRetry), beside MorphoAdapter.ts and   *)
(* FluidAdapter.ts.  A run yields                                          *)
(*   state   : "fulfilled" | "rejected", how the returned promise settles  *)
(*   value   : the list it resolves with                                   *)
(*   effects : what the call issued, in order:                             *)
(*             <<"getProvider", chain>>  endpoint selection, which probes  *)
(*             <<"call", key>>           one invocation of a contract read *)
(*             <<"sleep", key>>          a backoff sleep of withRetry      *)
(***************************************************************************)
AdapterVariants == {"Aave", "AaveRetry", "Morpho", "Fluid"}

\* The error of a failing contract call.
RpcError == [isError |-> TRUE, name |-> "Error", message |-> "call failed"]

\* How a contract read is made: under withRetry(fn, {maxRetries}) or bare.
Bare == [wrapped |-> FALSE, maxRetries |-> 0]
Retried(n) == [wrapped |-> TRUE, maxRetries |-> n]

AaveRetryConfigRetries == 3     \* part_009 l. 137
AaveRetryAssetRetries == 2      \* part_009 l. 187

ConfigWrap(variant) ==
    IF variant = "AaveRetry" THEN Retried(AaveRetryConfigRetries) ELSE Bare

ReadWrap(variant) ==
    CASE variant = "AaveRetry" -> Retried(AaveRetryAssetRetries)
      [] variant = "Fluid"     -> Retried(FluidMaxRetries)
      [] OTHER                 -> Bare

UsesGetProvider(variant) == variant \in {"AaveRetry", "Fluid"}

\* withRetry run to its end, fn failing `fate` times before it succeeds.
RECURSIVE RunRetry(_, _)
RunRetry(call, fate) ==
    IF call.attempt >= fate
    THEN OnSuccess(call, [kind |-> "value", v |-> "read"])
    ELSE LET after == OnFailure(call, RpcError)
         IN  IF after.pc = "thrown" THEN after
             ELSE RunRetry([after EXCEPT !.attempt = @ + 1, !.pc = "attempt"], fate)

RECURSIVE RetryEffects(_, _, _)
RetryEffects(call, fate, key) ==
    <<<<"call", key>>>> \o
    (IF call.attempt >= fate THEN <<>>
     ELSE LET after == OnFailure(call, RpcError)
          IN  IF after.pc = "thrown" THEN <<>>
              ELSE <<<<"sleep", key>>>> \o
                   RetryEffects([after EXCEPT !.attempt = @ + 1, !.pc = "attempt"],
                                fate, key))

\* One contract read with the given fate: whether it yields its value, and
\* what it issued.
Invoke(key, fate, wrap) ==
    IF wrap.wrapped
    THEN [ok |-> RunRetry(NewCall(wrap.maxRetries), fate).pc = "returned",
          effects |-> RetryEffects(NewCall(wrap.maxRetries), fate, key)]
    ELSE [ok |-> fate = 0, effects |-> <<<<"call", key>>>>]

\* const provider = await getProvider(chain), where the variant does it.
ProviderEffects(variant, chain) ==
    IF UsesGetProvider(variant) THEN <<<<"getProvider", chain>>>> ELSE <<>>

Returns(value, effects) == [threw |-> FALSE, value |-> value, effects |-> effects]
Throws(effects) == [threw |-> TRUE, value |-> <<>>, effects |-> effects]

\* try { body } catch (error) { console.error(...); return []; } as the last
\* statement of an async function.
CatchAllRethrows(body) ==
    [state |-> IF body.threw THEN "rejected" ELSE "fulfilled",
     value |-> body.value, effects |-> body.effects]

CatchAll(body) ==
    [state |-> "fulfilled",
     value |-> IF body.threw THEN <<>> ELSE body.value,
     effects |-> body.effects]

\* return [] ahead of the try block.
ReturnEmpty == [state |-> "fulfilled", value |-> <<>>, effects |-> <<>>]

\* ---- Aave, both adapters ----
\* collateralAddresses of the adapter.
AaveCollateralsOf(variant, chain) ==
    CASE chain = "Arbitrum" -> {"XAUT", "PAXG"}
      [] chain = "Ethereum" ->
            IF variant = "AaveRetry" THEN CollateralToken ELSE {"XAUT", "PAXG"}
      [] OTHER -> {}

\* fetchBorrowAssets: the assets pushed and what the loop issued.
RECURSIVE AaveAssetsRunStopAtFailure(_, _, _, _)
AaveAssetsRunStopAtFailure(variant, chain, rpc, i) ==
    LET assets == AaveBorrowAssets(chain)
    IN  IF i > Len(assets) THEN [value |-> <<>>, effects |-> <<>>]
        ELSE LET read == Invoke(assets[i], rpc[assets[i]], ReadWrap(variant))
                 rest == AaveAssetsRunStopAtFailure(variant, chain, rpc, i + 1)
             IN  IF read.ok
                 THEN [value |-> <<AaveBorrowAsset(chain, assets[i])>> \o rest.value,
                       effects |-> read.effects \o rest.effects]
                 ELSE [value |-> <<>>, effects |-> read.effects]

RECURSIVE AaveAssetsRun(_, _, _, _)
AaveAssetsRun(variant, chain, rpc, i) ==
    LET assets == AaveBorrowAssets(chain)
    IN  IF i > Len(assets) THEN [value |-> <<>>, effects |-> <<>>]
        ELSE LET read == Invoke(assets[i], rpc[assets[i]], ReadWrap(variant))
                 rest == AaveAssetsRun(variant, chain, rpc, i + 1)
             IN  [value |-> (IF read.ok
                             THEN <<AaveBorrowAsset(chain, assets[i])>>
                             ELSE <<>>) \o rest.value,
                  effects |-> read.effects \o rest.effects]

\* The try block with maxLTV clamped to the liquidation threshold.
AaveTryBodyClamped(variant, col, chain, rpc) ==
    LET sel    == ProviderEffects(variant, chain)
        config == Invoke("config", rpc["config"], ConfigWrap(variant))
        cfg    == ReserveConfigurationData(chain, col)
        assets == AaveAssetsRun(variant, chain, rpc, 1)
    IN  IF ~config.ok THEN Throws(sel \o config.effects)
        ELSE Returns(<<MkMarket("Aave", chain, col,
                                Min(cfg.ltv, cfg.liquidationThreshold),
                                cfg.liquidationThreshold, assets.value)>>,
                     sel \o config.effects \o assets.effects)

\* The try block of fetchMarkets.
AaveTryBody(variant, col, chain, rpc) ==
    LET sel    == ProviderEffects(variant, chain)
        config == Invoke("config", rpc["config"], ConfigWrap(variant))
        cfg    == ReserveConfigurationData(chain, col)
        assets == AaveAssetsRun(variant, chain, rpc, 1)
    IN  IF ~config.ok THEN Throws(sel \o config.effects)
        ELSE Returns(<<MkMarket("Aave", chain, col, cfg.ltv,
                                cfg.liquidationThreshold, assets.value)>>,
                     sel \o config.effects \o assets.effects)

AaveRun(variant, col, chain, rpc) ==
    IF ~InSeq(chain, AaveChains) THEN ReturnEmpty
    ELSE IF col \notin AaveCollateralsOf(variant, chain) THEN ReturnEmpty
    ELSE CatchAll(AaveTryBody(variant, col, chain, rpc))

\* ---- Morpho ----
RECURSIVE MorphoMarketsRun(_, _, _, _)
MorphoMarketsRun(col, chain, rpc, i) ==
    LET relevant == MorphoRelevantMarkets(col, chain)
    IN  IF i > Len(relevant) THEN [value |-> <<>>, effects |-> <<>>]
        ELSE LET read == Invoke(relevant[i].id, rpc[relevant[i].id], ReadWrap("Morpho"))
                 rest == MorphoMarketsRun(col, chain, rpc, i + 1)
             IN  [value |-> (IF read.ok
                             THEN <<MorphoMarket(col, chain, relevant[i])>>
                             ELSE <<>>) \o rest.value,
                  effects |-> read.effects \o rest.effects]

MorphoTryBody(col, chain, rpc) ==
    LET run == MorphoMarketsRun(col, chain, rpc, 1)
    IN  Returns(run.value, ProviderEffects("Morpho", chain) \o run.effects)

MorphoRun(col, chain, rpc) ==
    IF ~InSeq(chain, MorphoChains) THEN ReturnEmpty
    ELSE CatchAll(MorphoTryBody(col, chain, rpc))

\* ---- Fluid ----
RECURSIVE FluidVaultsRun(_, _, _, _)
FluidVaultsRun(col, chain, rpc, i) ==
    LET relevant == FluidRelevantVaults(col, chain)
    IN  IF i > Len(relevant) THEN [value |-> <<>>, effects |-> <<>>]
        ELSE LET read == Invoke(relevant[i].id, rpc[relevant[i].id], ReadWrap("Fluid"))
                 rest == FluidVaultsRun(col, chain, rpc, i + 1)
             IN  [value |-> (IF read.ok
                             THEN <<FluidMarket(col, chain, relevant[i])>>
                             ELSE <<>>) \o rest.value,
                  effects |-> read.effects \o rest.effects]

\* getProvider comes first in the try block (l. 183), the filter of the
\* vaults after it (l. 186-193).
FluidTryBody(col, chain, rpc) ==
    LET run == FluidVaultsRun(col, chain, rpc, 1)
    IN  Returns(run.value, ProviderEffects("Fluid", chain) \o run.effects)

FluidRun(col, chain, rpc) ==
    IF ~InSeq(chain, FluidChains) THEN ReturnEmpty
    ELSE CatchAll(FluidTryBody(col, chain, rpc))

\* ---- any of them ----
AdapterRun(variant, col, chain, rpc) ==
    CASE variant \in {"Aave", "AaveRetry"} -> AaveRun(variant, col, chain, rpc)
      [] variant = "Morpho"                -> MorphoRun(col, chain, rpc)
      [] OTHER                             -> FluidRun(col, chain, rpc)

\* The contract reads a run may make.
RunKeys(variant, col, chain) ==
    CASE variant \in {"Aave", "AaveRetry"} ->
            IF col \in AaveCollateralsOf(variant, chain) THEN AaveKeys(chain) ELSE {}
      [] variant = "Morpho" -> MorphoKeys(col, chain)
      [] OTHER              -> FluidKeys(col, chain)

WrapOf(variant, key) ==
    IF key = "config" THEN ConfigWrap(variant) ELSE ReadWrap(variant)

\* The fates of a read: it succeeds at once, it fails once and succeeds when
\* repeated, or (under withRetry) it fails on every attempt.
FatesOf(wrap) ==
    IF wrap.wrapped THEN {0, 1, wrap.maxRetries + 1} ELSE {0, 1}

RunPatterns(variant, col, chain) ==
    { rpc \in [RunKeys(variant, col, chain) -> {0, 1, 3, 4}] :
        \A k \in RunKeys(variant, col, chain) : rpc[k] \in FatesOf(WrapOf(variant, k)) }

(***************************************************************************)
(* MarketAggregator (src/unnamed/part_011)                                 *)
(***************************************************************************)
AggregatorMaxRetries == 2                                   \* l. 37

\* this.adapters, in registration order (l. 16-20)
Adapters == <<"Aave", "Morpho", "Fluid">>

\* adapter.getSupportedChains()
SupportedChains(adapter) ==
    CASE adapter = "Aave"   -> AaveChains
      [] adapter = "Morpho" -> MorphoChains
      [] OTHER              -> FluidChains

\* this.adapters.flatMap(adapter => chains.map(chain => ...)) (l. 31-33):
\* the adapter x chain pairs, in the order their promises are created.
RECURSIVE TasksFrom(_)
TasksFrom(a) ==
    IF a > Len(Adapters) THEN <<>>
    ELSE [i \in 1..Len(SupportedChains(Adapters[a])) |->
              [adapter |-> Adapters[a], chain |-> SupportedChains(Adapters[a])[i]]]
         \o TasksFrom(a + 1)

Tasks == TasksFrom(1)

\* adapter.fetchMarkets(collateral, chain), by dynamic dispatch.
AdapterFetchMarkets(adapter, col, chain, rpc) ==
    CASE adapter = "Aave"   -> AaveFetchMarkets(col, chain, rpc)
      [] adapter = "Morpho" -> MorphoFetchMarkets(col, chain, rpc)
      [] OTHER              -> FluidFetchMarkets(col, chain, rpc)

\* The contract calls one adapter call may make.
AdapterKeys(adapter, col, chain) ==
    CASE adapter = "Aave" ->
            IF chain \in AaveCollateralChains /\ col \in AaveCollaterals
            THEN AaveKeys(chain) ELSE {}
      [] adapter = "Morpho" -> MorphoKeys(col, chain)
      [] OTHER              -> FluidKeys(col, chain)

\* The fates of a contract call: it succeeds at once, it fails once and then
\* succeeds, or (where the adapter repeats it) it fails on every attempt.
RpcFates(adapter) ==
    IF adapter = "Fluid" THEN {0, 1, FluidMaxRetries + 1} ELSE {0, 1}

RpcPatterns(adapter, col, chain) ==
    [AdapterKeys(adapter, col, chain) -> RpcFates(adapter)]

NoFailure(adapter, col, chain) == [k \in AdapterKeys(adapter, col, chain) |-> 0]

\* A promise that IProtocolAdapter.fetchMarkets returns may reject
\* (src/src/adapters/IProtocolAdapter.ts l. 14).
AdapterRejection ==
    [isError |-> TRUE, name |-> "Error", message |-> "fetchMarkets rejected"]

\* What () => adapter.fetchMarkets(collateral, chain) of task c resolves
\* with, for every fate of the contract calls it makes.
AdapterResults(c) ==
    { [kind |-> "value",
       v |-> AdapterFetchMarkets(Tasks[c].adapter, collateral, Tasks[c].chain, rpc)] :
        rpc \in RpcPatterns(Tasks[c].adapter, collateral, Tasks[c].chain) }

\* What it resolves with when no contract call fails.
AdapterResultNoFailure(c) ==
    [kind |-> "value",
     v |-> AdapterFetchMarkets(Tasks[c].adapter, collateral, Tasks[c].chain,
                               NoFailure(Tasks[c].adapter, collateral, Tasks[c].chain))]

\* withRetry(...).catch(error => []) (l. 34-49): the promise of one task.
TaskPromiseNoCatch(call) ==
    CASE call.pc = "returned" -> [state |-> "fulfilled", value |-> call.result.v]
      [] call.pc = "thrown"   -> [state |-> "rejected", value |-> <<>>]
      [] OTHER                -> [state |-> "pending", value |-> <<>>]

TaskPromise(call) ==
    CASE call.pc = "returned" -> [state |-> "fulfilled", value |-> call.result.v]
      [] call.pc = "thrown"   -> [state |-> "fulfilled", value |-> <<>>]
      [] OTHER                -> [state |-> "pending", value |-> <<>>]

\* results.forEach(markets => allMarkets.push(...markets)) (l. 56-58)
RECURSIVE FlattenFromBackwards(_, _)
FlattenFromBackwards(results, i) ==
    IF i > Len(results) THEN <<>>
    ELSE FlattenFromBackwards(results, i + 1) \o results[i]

RECURSIVE FlattenFrom(_, _)
FlattenFrom(results, i) ==
    IF i > Len(results) THEN <<>>
    ELSE results[i] \o FlattenFrom(results, i + 1)

Flatten(results) == FlattenFrom(results, 1)

\* The values Promise.all hands back (l. 53), one per task.
PromiseAllValuesAllOrNothing(cs) ==
    IF \E i \in DOMAIN cs : cs[i].pc = "thrown"
    THEN [i \in DOMAIN cs |-> <<>>]
    ELSE [i \in DOMAIN cs |-> TaskPromise(cs[i]).value]

PromiseAllValues(cs) == [i \in DOMAIN cs |-> TaskPromise(cs[i]).value]

\* ---- fetchMarketsByChain (l. 66-91) ----
\* The fates of a task's fetchMarkets calls within one aggregator call: the
\* call resolves at once, it rejects on its first attempt and resolves when
\* repeated, or it rejects on every attempt withRetry makes.
RejectionFates == {0, 1, AggregatorMaxRetries + 1}

HasTask(adapter, chain) ==
    \E c \in 1..Len(Tasks) : Tasks[c] = [adapter |-> adapter, chain |-> chain]

TaskOf(adapter, chain) ==
    CHOOSE c \in 1..Len(Tasks) : Tasks[c] = [adapter |-> adapter, chain |-> chain]

\* Whether the first fetchMarkets(collateral, chain) call of the adapter
\* rejects; a call for a chain the adapter does not support returns [].
FirstCallRejects(adapter, chain, rej) ==
    HasTask(adapter, chain) /\ rej[TaskOf(adapter, chain)] > 0

\* adapter.fetchMarkets(collateral, chain).catch(error => []) (l. 72-81):
\* what the promise is fulfilled with.
ByChainPromise(adapter, col, chain, rej) ==
    IF FirstCallRejects(adapter, chain, rej) THEN <<>>
    ELSE AdapterFetchMarkets(adapter, col, chain, NoFailure(adapter, col, chain))

Pending == [settled |-> FALSE, value |-> <<>>]
Fulfilled(value) == [settled |-> TRUE, value |-> value]

\* Promise.all settles when one promise has rejected or all are fulfilled.
PromiseAllRejected(cs) == \E i \in DOMAIN cs : TaskPromise(cs[i]).state = "rejected"
PromiseAllFulfilledAny(cs) == \E i \in DOMAIN cs : TaskPromise(cs[i]).state = "fulfilled"
PromiseAllFulfilled(cs) == \A i \in DOMAIN cs : TaskPromise(cs[i]).state = "fulfilled"

(***************************************************************************)
(* Actions                                                                 *)
(***************************************************************************)
\* A caller starts withRetry(fn, {maxRetries: n}) on its own; fn is invoked
\* before the call first suspends.
StartRetry(n) ==
    /\ aggPc = "idle"
    /\ DOMAIN calls = {}
    /\ calls' = (StandaloneCall :> NewCall(n))
    /\ log' = (StandaloneCall :> <<<<"call", 0>>>>)
    /\ UNCHANGED <<engineVars, aggVars>>
    /\ UNCHANGED <<adapterVars, providerVars, byChainVars>>

\* await fn() resolves with v (retry.ts l. 33).
FnResolves(c, v) ==
    /\ c \in DOMAIN calls
    /\ calls[c].pc = "attempt"
    /\ calls' = [calls EXCEPT ![c] = OnSuccess(@, v)]
    /\ log' = [log EXCEPT ![c] = Append(@, <<"ok", calls[c].attempt, v>>)]
    /\ UNCHANGED <<engineVars, aggVars>>
    /\ UNCHANGED <<adapterVars, providerVars, byChainVars>>

\* await fn() throws x (retry.ts l. 34-53).
FnRejects(c, x) ==
    /\ c \in DOMAIN calls
    /\ calls[c].pc = "attempt"
    /\ calls' = [calls EXCEPT ![c] = OnFailure(@, x)]
    /\ log' = [log EXCEPT ![c] = @ \o FailureEvents(calls[c], x)]
    /\ UNCHANGED <<engineVars, aggVars>>
    /\ UNCHANGED <<adapterVars, providerVars, byChainVars>>

\* await sleep(delay) ends; the loop increments attempt and invokes fn
\* again (retry.ts l. 52, 31, 33).
SleepEnds(c) ==
    /\ c \in DOMAIN calls
    /\ calls[c].pc = "sleeping"
    /\ calls' = [calls EXCEPT ![c].attempt = @ + 1, ![c].pc = "attempt"]
    /\ log' = [log EXCEPT ![c] = Append(@, <<"call", calls[c].attempt + 1>>)]
    /\ UNCHANGED <<engineVars, aggVars>>
    /\ UNCHANGED <<adapterVars, providerVars, byChainVars>>

\* The same with maxRetries one higher.
FetchAllMarketsOneMoreRetry ==
    /\ aggPc = "idle"
    /\ DOMAIN calls = {}
    /\ calls' = [i \in 1..Len(Tasks) |-> NewCall(AggregatorMaxRetries + 1)]
    /\ log' = [i \in 1..Len(Tasks) |-> <<<<"call", 0>>>>]
    /\ aggPc' = "joining"
    /\ UNCHANGED <<engineVars, collateral, allMarkets>>
    /\ UNCHANGED <<adapterVars, providerVars, byChainVars>>

\* fetchAllMarkets(collateral) up to await Promise.all (l. 27-53): every
\* task's withRetry is started, and with it the first fetchMarkets call.
FetchAllMarkets ==
    /\ aggPc = "idle"
    /\ DOMAIN calls = {}
    /\ calls' = [i \in 1..Len(Tasks) |-> NewCall(AggregatorMaxRetries)]
    /\ log' = [i \in 1..Len(Tasks) |-> <<<<"call", 0>>>>]
    /\ aggPc' = "joining"
    /\ UNCHANGED <<engineVars, collateral, allMarkets>>
    /\ UNCHANGED <<adapterVars, providerVars, byChainVars>>

\* await Promise.all(fetchPromises) settles; the results are flattened and
\* returned (l. 53-60).
Join ==
    /\ aggPc = "joining"
    /\ PromiseAllRejected(calls) \/ PromiseAllFulfilled(calls)
    /\ IF PromiseAllRejected(calls)
       THEN /\ aggPc' = "rejected"
            /\ UNCHANGED allMarkets
       ELSE /\ aggPc' = "done"
            /\ allMarkets' = Flatten(PromiseAllValues(calls))
    /\ UNCHANGED <<engineVars, retryVars, collateral>>
    /\ UNCHANGED <<adapterVars, providerVars, byChainVars>>

\* One fetchMarkets call of task c of fetchAllMarkets settles as the task's
\* fate has it.
FetchMarketsResolves(c) ==
    /\ c \in DOMAIN calls
    /\ calls[c].attempt >= rejections[c]
    /\ FnResolves(c, AdapterResultNoFailure(c))

FetchMarketsRejects(c) ==
    /\ c \in DOMAIN calls
    /\ calls[c].attempt < rejections[c]
    /\ FnRejects(c, AdapterRejection)

\* fetchMarketsByChain(collateral, chain) up to await Promise.all
\* (l. 66-83): fetchMarkets of every adapter is called once.  The caller
\* makes the call after fetchAllMarkets has returned; the two share no state.
FetchMarketsByChain(chain) ==
    /\ aggPc = "done"
    /\ byChain.pc = "idle"
    /\ byChain' = [chain |-> chain, pc |-> "joining",
                   results |-> [a \in 1..Len(Adapters) |-> Pending],
                   allMarkets |-> <<>>]
    /\ UNCHANGED <<engineVars, retryVars, aggVars, adapterVars, providerVars, rejections>>

\* The promise of adapter a settles: with the list, or, through .catch,
\* with [] (l. 72-81).
ByChainSettles(a) ==
    /\ byChain.pc = "joining"
    /\ a \in DOMAIN byChain.results
    /\ ~byChain.results[a].settled
    /\ byChain' = [byChain EXCEPT !.results[a] =
                      Fulfilled(ByChainPromise(Adapters[a], collateral,
                                               byChain.chain, rejections))]
    /\ UNCHANGED <<engineVars, retryVars, aggVars, adapterVars, providerVars, rejections>>

\* await Promise.all(fetchPromises) resolves; the results are flattened and
\* returned (l. 83-90).
ByChainJoin ==
    /\ byChain.pc = "joining"
    /\ \A a \in DOMAIN byChain.results : byChain.results[a].settled
    /\ byChain' = [byChain EXCEPT
                      !.pc = "done",
                      !.allMarkets = Flatten([a \in DOMAIN byChain.results |->
                                                  byChain.results[a].value])]
    /\ UNCHANGED <<engineVars, retryVars, aggVars, adapterVars, providerVars, rejections>>

(***************************************************************************)
(* utils/provider.ts: getProvider, tryEndpoints, clearProviderCache.       *)
(* A connection is modelled by its endpoint and by the call and pass that  *)
(* constructed it, so that two connections to one endpoint are told apart. *)
(***************************************************************************)
\* The endpoints configured for each chain, in order (l. 10-39).
RPC_ENDPOINTS ==
    [chain \in Chain |->
        CASE chain = "Ethereum" ->
                <<"eth.llamarpc.com", "rpc.ankr.com/eth", "ethereum.publicnode.com",
                  "1rpc.io/eth", "eth.drpc.org">>
          [] chain = "Arbitrum" ->
                <<"arbitrum.llamarpc.com", "rpc.ankr.com/arbitrum",
                  "arbitrum-one.publicnode.com", "1rpc.io/arb", "arb1.arbitrum.io/rpc">>
          [] chain = "Optimism" ->
                <<"optimism.llamarpc.com", "rpc.ankr.com/optimism",
                  "optimism.publicnode.com", "1rpc.io/op", "mainnet.optimism.io">>
          [] OTHER ->
                <<"polygon.llamarpc.com", "rpc.ankr.com/polygon",
                  "polygon.publicnode.com", "1rpc.io/matic", "polygon-rpc.com">>]

\* The chains getProvider is called for.
ProviderChains == {"Ethereum", "Arbitrum"}

\* How many getProvider calls are followed.
MaxGetCalls == 3

\* Map.set, Map.delete, Map.get of a Map<Chain, _>.
MapSet(m, k, v) == [x \in DOMAIN m \cup {k} |-> IF x = k THEN v ELSE m[x]]
MapDeleteKeepsEntry(m, k) == m
MapDelete(m, k) == [x \in DOMAIN m \ {k} |-> m[x]]
MapHas(m, k) == k \in DOMAIN m

\* new ethers.JsonRpcProvider(endpoint, ...) constructed by call id in the
\* given pass of getProvider.
NewProvider(endpoint, id, pass) == [endpoint |-> endpoint, by |-> id, pass |-> pass]

NoProvider == NewProvider("none", 0, "none")

\* The liveness probes (getBlockNumber) a call has issued, in order, each
\* with its outcome; the last one is pending while the call is suspended.
Issue(probes, endpoint) == Append(probes, [endpoint |-> endpoint, outcome |-> "pending"])
Settle(probes, outcome) == [probes EXCEPT ![Len(probes)].outcome = outcome]

\* [lastSuccessful, ...endpoints.filter(e => e !== lastSuccessful)] (l. 69)
OrderedEndpoints(lastSuccessful, endpoints) ==
    <<lastSuccessful>> \o SelectSeq(endpoints, LAMBDA e : e # lastSuccessful)

\* getProvider from l. 64 to the first probe of tryEndpoints: the call is
\* suspended in Promise.race on the probe of list[idx] (l. 100).
ProbingFrom(chain, last, probes) ==
    LET endpoints == RPC_ENDPOINTS[chain]
        list == IF MapHas(last, chain)
                THEN OrderedEndpoints(last[chain], endpoints)
                ELSE endpoints
    IN  [chain |-> chain, pc |-> "probing", held |-> NoProvider,
         pass |-> IF MapHas(last, chain) THEN "lastSuccessful" ELSE "all",
         list |-> list, idx |-> 1,
         probes |-> Issue(probes, list[1]), result |-> NoProvider,
         evicted |-> NoProvider]

\* getProvider suspended in await cached.getBlockNumber() (l. 56).
VerifyingCached(chain, cached) ==
    [chain |-> chain, pc |-> "verifying", held |-> cached, pass |-> "cached",
     list |-> <<>>, idx |-> 0,
     probes |-> Issue(<<>>, cached.endpoint), result |-> NoProvider,
     evicted |-> NoProvider]

\* The pending probe has settled and getProvider returns the connection.
ReturnedWith(call, outcome, provider) ==
    [call EXCEPT !.pc = "returned", !.result = provider,
                 !.probes = Settle(@, outcome)]

\* The probe of list[idx] failed or timed out (l. 107-109): the loop goes
\* on to the next endpoint; tryEndpoints returns null after the last one
\* (l. 112), and getProvider then tries all endpoints (l. 75), or, when it
\* just did, returns an unverified connection to endpoints[0] (l. 80).
AfterProbeFailureLastEndpoint(call, id) ==
    IF call.idx < Len(call.list)
    THEN [call EXCEPT !.idx = @ + 1,
                      !.probes = Issue(Settle(@, "failed"), call.list[call.idx + 1])]
    ELSE IF call.pass = "lastSuccessful"
    THEN [call EXCEPT !.pass = "all", !.list = RPC_ENDPOINTS[call.chain], !.idx = 1,
                      !.probes = Issue(Settle(@, "failed"), RPC_ENDPOINTS[call.chain][1])]
    ELSE ReturnedWith(call, "failed",
                      NewProvider(call.list[call.idx], id, "fallback"))

AfterProbeFailure(call, id) ==
    IF call.idx < Len(call.list)
    THEN [call EXCEPT !.idx = @ + 1,
                      !.probes = Issue(Settle(@, "failed"), call.list[call.idx + 1])]
    ELSE IF call.pass = "lastSuccessful"
    THEN [call EXCEPT !.pass = "all", !.list = RPC_ENDPOINTS[call.chain], !.idx = 1,
                      !.probes = Issue(Settle(@, "failed"), RPC_ENDPOINTS[call.chain][1])]
    ELSE ReturnedWith(call, "failed",
                      NewProvider(RPC_ENDPOINTS[call.chain][1], id, "fallback"))

\* getProvider(chain) is called (l. 49-56, 64-76, 86-100): with a cached
\* connection it suspends verifying it, without one it suspends on the
\* probe of the first endpoint.
GetProvider(chain) ==
    /\ Len(getCalls) < MaxGetCalls
    /\ getCalls' = Append(getCalls,
                          IF MapHas(providerCache, chain)
                          THEN VerifyingCached(chain, providerCache[chain])
                          ELSE ProbingFrom(chain, lastSuccessfulEndpoint, <<>>))
    /\ UNCHANGED <<providerCache, lastSuccessfulEndpoint>>
    /\ UNCHANGED <<engineVars, retryVars, aggVars, adapterVars, byChainVars>>

\* await cached.getBlockNumber() resolves: return cached (l. 56-57).
CachedProbeResolves(id) ==
    /\ id \in DOMAIN getCalls
    /\ getCalls[id].pc = "verifying"
    /\ getCalls' = [getCalls EXCEPT ![id] = ReturnedWith(@, "ok", @.held)]
    /\ UNCHANGED <<providerCache, lastSuccessfulEndpoint>>
    /\ UNCHANGED <<engineVars, retryVars, aggVars, adapterVars, byChainVars>>

\* What providerCache.delete(chain) of l. 59 removes: the entry the map
\* holds at that moment.
Evicted(cache, chain) == IF MapHas(cache, chain) THEN cache[chain] ELSE NoProvider

\* The catch block entered, with cached (held) still in scope and the
\* removed entry recorded.
AfterCachedFailure(call, cache, last) ==
    [ProbingFrom(call.chain, last, Settle(call.probes, "failed"))
        EXCEPT !.held = call.held, !.evicted = Evicted(cache, call.chain)]

\* The same with the entries removed only while the cache still holds the
\* connection that was probed.
CachedProbeRejectsIfStillCached(id) ==
    /\ id \in DOMAIN getCalls
    /\ getCalls[id].pc = "verifying"
    /\ LET call  == getCalls[id]
           still == Evicted(providerCache, call.chain) = call.held
       IN  /\ providerCache' = IF still THEN MapDelete(providerCache, call.chain)
                                ELSE providerCache
           /\ lastSuccessfulEndpoint' =
                  IF still THEN MapDelete(lastSuccessfulEndpoint, call.chain)
                  ELSE lastSuccessfulEndpoint
           /\ getCalls' = [getCalls EXCEPT ![id] =
                  [AfterCachedFailure(call, providerCache, lastSuccessfulEndpoint')
                      EXCEPT !.evicted = IF still THEN call.held ELSE NoProvider]]
    /\ UNCHANGED <<engineVars, retryVars, aggVars, adapterVars, byChainVars>>

\* await cached.getBlockNumber() rejects (l. 58-61): the chain's entries are
\* deleted, whatever they now hold, and the endpoints are probed (l. 64-76).
CachedProbeRejects(id) ==
    /\ id \in DOMAIN getCalls
    /\ getCalls[id].pc = "verifying"
    /\ providerCache' = MapDelete(providerCache, getCalls[id].chain)
    /\ lastSuccessfulEndpoint' = MapDelete(lastSuccessfulEndpoint, getCalls[id].chain)
    /\ getCalls' = [getCalls EXCEPT ![id] =
                       AfterCachedFailure(@, providerCache, lastSuccessfulEndpoint')]
    /\ UNCHANGED <<engineVars, retryVars, aggVars, adapterVars, byChainVars>>

\* The same without lastSuccessfulEndpoint.set.
ProbeResolvesCacheOnly(id) ==
    /\ id \in DOMAIN getCalls
    /\ getCalls[id].pc = "probing"
    /\ LET call     == getCalls[id]
           endpoint == call.list[call.idx]
           provider == NewProvider(endpoint, id, call.pass)
       IN  /\ providerCache' = MapSet(providerCache, call.chain, provider)
           /\ getCalls' = [getCalls EXCEPT ![id] = ReturnedWith(@, "ok", provider)]
    /\ UNCHANGED lastSuccessfulEndpoint
    /\ UNCHANGED <<engineVars, retryVars, aggVars, adapterVars, byChainVars>>

\* The probe of tryEndpoints resolves before the timeout (l. 100-106): the
\* connection is cached and returned.
ProbeResolves(id) ==
    /\ id \in DOMAIN getCalls
    /\ getCalls[id].pc = "probing"
    /\ LET call     == getCalls[id]
           endpoint == call.list[call.idx]
           provider == NewProvider(endpoint, id, call.pass)
       IN  /\ providerCache' = MapSet(providerCache, call.chain, provider)
           /\ lastSuccessfulEndpoint' = MapSet(lastSuccessfulEndpoint, call.chain, endpoint)
           /\ getCalls' = [getCalls EXCEPT ![id] = ReturnedWith(@, "ok", provider)]
    /\ UNCHANGED <<engineVars, retryVars, aggVars, adapterVars, byChainVars>>

\* The probe of tryEndpoints rejects, or the 5000 ms timeout rejects first
\* (l. 96-100, 107-109).
ProbeRejects(id) ==
    /\ id \in DOMAIN getCalls
    /\ getCalls[id].pc = "probing"
    /\ getCalls' = [getCalls EXCEPT ![id] = AfterProbeFailure(@, id)]
    /\ UNCHANGED <<providerCache, lastSuccessfulEndpoint>>
    /\ UNCHANGED <<engineVars, retryVars, aggVars, adapterVars, byChainVars>>

\* A candidate's probe never responds: the 5000 ms timer rejects the race
\* (l. 96-100) and the catch of l. 107 runs, as for a failed probe.
ProbeTimesOut(id) ==
    /\ id \in DOMAIN getCalls
    /\ getCalls[id].pc = "probing"
    /\ getCalls' = [getCalls EXCEPT ![id] = AfterProbeFailure(@, id)]
    /\ UNCHANGED <<providerCache, lastSuccessfulEndpoint>>
    /\ UNCHANGED <<engineVars, retryVars, aggVars, adapterVars, byChainVars>>

\* The cached connection's probe never responds: await
\* cached.getBlockNumber() (l. 56) races against no timer, and the call
\* stays suspended.
CachedProbeHangs(id) ==
    /\ id \in DOMAIN getCalls
    /\ getCalls[id].pc = "verifying"
    /\ getCalls' = [getCalls EXCEPT ![id].pc = "hung"]
    /\ UNCHANGED <<providerCache, lastSuccessfulEndpoint>>
    /\ UNCHANGED <<engineVars, retryVars, aggVars, adapterVars, byChainVars>>

\* The same without lastSuccessfulEndpoint.delete.
ClearProviderCacheConnectionOnly(chain) ==
    /\ providerCache' = MapDelete(providerCache, chain)
    /\ UNCHANGED <<lastSuccessfulEndpoint, getCalls>>
    /\ UNCHANGED <<engineVars, retryVars, aggVars, adapterVars, byChainVars>>

\* clearProviderCache(chain) (l. 119-121)
ClearProviderCache(chain) ==
    /\ providerCache' = MapDelete(providerCache, chain)
    /\ lastSuccessfulEndpoint' = MapDelete(lastSuccessfulEndpoint, chain)
    /\ UNCHANGED getCalls
    /\ UNCHANGED <<engineVars, retryVars, aggVars, adapterVars, byChainVars>>

\* clearProviderCache() (l. 122-125)
ClearProviderCacheAll ==
    /\ providerCache' = <<>>
    /\ lastSuccessfulEndpoint' = <<>>
    /\ UNCHANGED getCalls
    /\ UNCHANGED <<engineVars, retryVars, aggVars, adapterVars, byChainVars>>


(***************************************************************************)
(* Specifications                                                          *)
(***************************************************************************)
EngineIdle ==
    /\ criteria = DefaultCriteria
    /\ markets = <<>>
    /\ recommendations = <<>>
    /\ analyzed = FALSE

FetchIdle ==
    /\ calls = <<>>
    /\ log = <<>>
    /\ aggPc = "idle"
    /\ allMarkets = <<>>

\* No getProvider call has been made.
ProviderIdle ==
    /\ providerCache = <<>>
    /\ lastSuccessfulEndpoint = <<>>
    /\ getCalls = <<>>

\* No fetchMarketsByChain call has been made.
NoByChain == [chain |-> "none", pc |-> "idle", results |-> <<>>, allMarkets |-> <<>>]

ByChainIdle ==
    /\ rejections = <<>>
    /\ byChain = NoByChain

\* No adapter call is followed; the contracts answer with the fixed values.
NoFetch == [variant |-> "none", chain |-> "none", rpc |-> <<>>,
            pc |-> "none", outcome |-> ReturnEmpty]

AdapterIdle ==
    /\ onchain = DefaultOnChain
    /\ fetch = NoFetch

\* The aggregator: one fetchAllMarkets call for the selected collateral.
Init ==
    /\ EngineIdle
    /\ FetchIdle
    /\ AdapterIdle
    /\ ProviderIdle
    /\ ByChainIdle
    /\ collateral \in CollateralToken

\* The program: the three adapters never reject, whatever their contract
\* calls do (each fetchMarkets catches what it throws).
Next ==
    \/ FetchAllMarkets
    \/ \E c \in DOMAIN calls : \E v \in AdapterResults(c) : FnResolves(c, v)
    \/ Join

Spec == Init /\ [][Next]_vars

\* withRetry on its own, for every maxRetries up to the bound.
InitRetry ==
    /\ EngineIdle
    /\ FetchIdle
    /\ AdapterIdle
    /\ ProviderIdle
    /\ ByChainIdle
    /\ collateral = "XAUT"

NextRetry ==
    \/ \E n \in 0..MaxRetriesBound : StartRetry(n)
    \/ \E v \in StandaloneValues : FnResolves(StandaloneCall, v)
    \/ \E x \in StandaloneThrows : FnRejects(StandaloneCall, x)
    \/ SleepEnds(StandaloneCall)

SpecRetry == InitRetry /\ [][NextRetry]_vars

\* The aggregator over any implementation of IProtocolAdapter: a
\* fetchMarkets call returns its list or rejects, on any attempt.
InitAnyAdapter ==
    /\ EngineIdle
    /\ FetchIdle
    /\ AdapterIdle
    /\ ProviderIdle
    /\ ByChainIdle
    /\ collateral \in CollateralToken

NextAnyAdapter ==
    \/ FetchAllMarkets
    \/ \E c \in DOMAIN calls : FnResolves(c, AdapterResultNoFailure(c))
    \/ \E c \in DOMAIN calls : FnRejects(c, AdapterRejection)
    \/ \E c \in DOMAIN calls : SleepEnds(c)
    \/ Join

SpecAnyAdapter == InitAnyAdapter /\ [][NextAnyAdapter]_vars

\* The engine over lists of markets built from the templates.
InitEngine ==
    /\ criteria \in CriteriaSet
    /\ markets = <<>>
    /\ recommendations = <<>>
    /\ analyzed = FALSE
    /\ FetchIdle
    /\ AdapterIdle
    /\ ProviderIdle
    /\ ByChainIdle
    /\ collateral = "XAUT"

NextEngine ==
    \/ \E m \in MarketTemplates : AddMarket(m)
    \/ \E a \in AssetTemplates : AddBorrowAsset(a)
    \/ AnalyzeMarkets

SpecEngine == InitEngine /\ [][NextEngine]_vars

\* The engine over every single (market, borrowAsset) pair of the value sets.
InitScore ==
    /\ criteria \in CriteriaSet
    /\ markets \in SinglePairInputs
    /\ recommendations = <<>>
    /\ analyzed = FALSE
    /\ FetchIdle
    /\ AdapterIdle
    /\ ProviderIdle
    /\ ByChainIdle
    /\ collateral = "XAUT"

NextScore == AnalyzeMarkets

SpecScore == InitScore /\ [][NextScore]_vars

\* The engine over two candidates that differ only in maxLTV.
InitLTVPair ==
    /\ criteria \in CriteriaSet
    /\ markets \in LTVPairInputs
    /\ recommendations = <<>>
    /\ analyzed = FALSE
    /\ FetchIdle
    /\ AdapterIdle
    /\ ProviderIdle
    /\ ByChainIdle
    /\ collateral = "XAUT"

NextLTVPair == AnalyzeMarkets

SpecLTVPair == InitLTVPair /\ [][NextLTVPair]_vars

\* What the contracts may answer.  ltv and liquidationThreshold are basis
\* points in [0, 10000]; the other values are unsigned integers.
OnChainScenarios ==
    { [given |-> TRUE, ltv |-> b[1], liquidationThreshold |-> b[2],
       availableLiquidity |-> r[1], variableBorrowRate |-> r[2],
       totalSupplyAssets |-> m[1], totalBorrowAssets |-> m[2],
       balance |-> r[1]] :
        b \in {<<7500, 8000>>, <<8000, 7500>>, <<0, 0>>, <<10000, 10000>>,
               <<0, 10000>>},
        r \in {<<0, 0>>, <<250000000, 42500>>},
        m \in {<<4000000, 1000000>>, <<0, 0>>, <<1000000, 2000000>>, <<0, 5>>} }

\* The scenarios that differ in what the variant reads.
ScenariosOf(variant) ==
    CASE variant \in {"Aave", "AaveRetry"} ->
            {o \in OnChainScenarios :
                o.totalSupplyAssets = 4000000 /\ o.totalBorrowAssets = 1000000}
      [] variant = "Morpho" ->
            {o \in OnChainScenarios :
                o.ltv = 7500 /\ o.liquidationThreshold = 8000 /\ o.availableLiquidity = 0}
      [] OTHER ->
            {o \in OnChainScenarios :
                /\ o.ltv = 7500 /\ o.liquidationThreshold = 8000
                /\ o.totalSupplyAssets = 4000000 /\ o.totalBorrowAssets = 1000000}

\* One fetchMarkets(collateral, chain) call of one adapter, for every
\* collateral and chain, every answer of the contracts and every fate of
\* the contract reads.
InitAdapter ==
    /\ EngineIdle
    /\ FetchIdle
    /\ ProviderIdle
    /\ ByChainIdle
    /\ collateral \in CollateralToken
    /\ \E variant \in AdapterVariants : \E chain \in Chain :
          /\ onchain \in ScenariosOf(variant)
          /\ \E rpc \in RunPatterns(variant, collateral, chain) :
                fetch = [variant |-> variant, chain |-> chain, rpc |-> rpc,
                         pc |-> "ready", outcome |-> ReturnEmpty]

\* await adapter.fetchMarkets(collateral, chain)
FetchMarkets ==
    /\ fetch.pc = "ready"
    /\ fetch' = [fetch EXCEPT !.pc = "settled",
                              !.outcome = AdapterRun(fetch.variant, collateral,
                                                     fetch.chain, fetch.rpc)]
    /\ UNCHANGED <<engineVars, retryVars, aggVars, onchain, providerVars, byChainVars>>

NextAdapter == FetchMarkets

SpecAdapter == InitAdapter /\ [][NextAdapter]_vars

\* Up to MaxGetCalls getProvider calls, concurrent or one after another,
\* every probe free to succeed, fail or time out, with clearProviderCache
\* called at any moment.
InitProvider ==
    /\ EngineIdle
    /\ FetchIdle
    /\ AdapterIdle
    /\ ProviderIdle
    /\ ByChainIdle
    /\ collateral = "XAUT"

\* The chains call id may be made for: the calls are for Ethereum, and the
\* last one followed is for either chain.
ChainsOfCall(id) == IF id < MaxGetCalls THEN {"Ethereum"} ELSE ProviderChains

NextProvider ==
    \/ \E chain \in ChainsOfCall(Len(getCalls) + 1) : GetProvider(chain)
    \/ \E id \in DOMAIN getCalls : CachedProbeResolves(id)
    \/ \E id \in DOMAIN getCalls : CachedProbeRejects(id)
    \/ \E id \in DOMAIN getCalls : ProbeResolves(id)
    \/ \E id \in DOMAIN getCalls : ProbeRejects(id)
    \/ \E chain \in ProviderChains : ClearProviderCache(chain)
    \/ ClearProviderCacheAll

SpecProvider == InitProvider /\ [][NextProvider]_vars

\* getProvider calls for one chain whose probes may also never respond.
\* Every pending probe gets its outcome in the end: it resolves, rejects, is
\* cut off by its timer, or is one that never responds.
MaxLiveCalls == 2

ProbeOutcome(id) ==
    \/ CachedProbeResolves(id)
    \/ CachedProbeRejects(id)
    \/ CachedProbeHangs(id)
    \/ ProbeResolves(id)
    \/ ProbeRejects(id)
    \/ ProbeTimesOut(id)

NextProviderLive ==
    \/ Len(getCalls) < MaxLiveCalls /\ GetProvider("Ethereum")
    \/ \E id \in DOMAIN getCalls : ProbeOutcome(id)
    \/ ClearProviderCache("Ethereum")

SpecProviderLive ==
    /\ InitProvider
    /\ [][NextProviderLive]_vars
    /\ \A id \in 1..MaxLiveCalls : WF_vars(ProbeOutcome(id))

\* fetchAllMarkets and then fetchMarketsByChain over adapters whose
\* fetchMarkets calls behave alike in both: each task's call resolves at
\* once, rejects once, or rejects every time.
InitByChain ==
    /\ EngineIdle
    /\ FetchIdle
    /\ AdapterIdle
    /\ ProviderIdle
    /\ collateral = "XAUT"
    /\ rejections \in [1..Len(Tasks) -> RejectionFates]
    /\ byChain = NoByChain

NextByChain ==
    \/ FetchAllMarkets
    \/ \E c \in DOMAIN calls : FetchMarketsResolves(c)
    \/ \E c \in DOMAIN calls : FetchMarketsRejects(c)
    \/ \E c \in DOMAIN calls : SleepEnds(c)
    \/ Join
    \/ \E chain \in Chain : FetchMarketsByChain(chain)
    \/ \E a \in 1..Len(Adapters) : ByChainSettles(a)
    \/ ByChainJoin

SpecByChain == InitByChain /\ [][NextByChain]_vars

(***************************************************************************)
(* Properties                                                              *)
(***************************************************************************)
\* Positions of the events of one kind in a log.
EventsOf(l, kind) == {i \in 1..Len(l) : l[i][1] = kind}

Started(c) == c \in DOMAIN calls

\* C4: for any maxRetries = n >= 0, withRetry invokes the operation at most
\* n+1 times, exactly n+1 times when every attempt fails; exactly one sleep
\* lies between two consecutive invocations; no sleep follows the final
\* failing attempt (a sleep only follows a failure of an iteration below n,
\* and a call that rejected ends with the failure itself).
C4_AttemptsAndSleeps ==
    Started(StandaloneCall) =>
        LET l     == log[StandaloneCall]
            n     == calls[StandaloneCall].maxRetries
            pc    == calls[StandaloneCall].pc
            cs    == EventsOf(l, "call")
            sl    == EventsOf(l, "sleep")
        IN  /\ Cardinality(cs) <= n + 1
            /\ pc = "thrown" =>
                  /\ Cardinality(cs) = n + 1
                  /\ Cardinality(EventsOf(l, "fail")) = n + 1
                  /\ EventsOf(l, "ok") = {}
                  /\ l[Len(l)][1] = "fail"
            /\ \A i \in cs : \A j \in cs :
                  (i < j /\ ~\E k \in cs : i < k /\ k < j)
                     => Cardinality({k \in sl : i < k /\ k < j}) = 1
            /\ \A k \in sl : /\ l[k][2] < n
                             /\ l[k - 1][1] = "fail"
            /\ Cardinality(sl) <= n
            /\ pc \in {"thrown", "returned"} => Cardinality(sl) = Cardinality(cs) - 1

\* C4 witness: a call with maxRetries = 2 whose three attempts all failed.
C4_Witness ==
    /\ Started(StandaloneCall)
    /\ calls[StandaloneCall].maxRetries = 2
    /\ calls[StandaloneCall].pc = "thrown"
    /\ Cardinality(EventsOf(log[StandaloneCall], "call")) = 3
    /\ Cardinality(EventsOf(log[StandaloneCall], "sleep")) = 2

\* C5: withRetry returns the value of the first successful attempt and
\* makes no attempt after it; when all maxRetries+1 attempts fail it rejects
\* with the error of the last attempt; a failure is followed by the same
\* steps whatever was thrown.
C5_ResultAndLastError ==
    Started(StandaloneCall) =>
        LET l    == log[StandaloneCall]
            call == calls[StandaloneCall]
            oks  == EventsOf(l, "ok")
            fs   == EventsOf(l, "fail")
        IN  /\ call.pc = "returned" =>
                  /\ oks = {Len(l)}
                  /\ call.result = l[Len(l)][3]
                  /\ \A i \in EventsOf(l, "call") : l[i][2] <= l[Len(l)][2]
                  /\ Cardinality(fs) = l[Len(l)][2]
            /\ call.pc = "thrown" =>
                  /\ l[Len(l)][1] = "fail"
                  /\ Cardinality(fs) = call.maxRetries + 1
                  /\ call.lastError.isError
                  /\ call.lastError.message = l[Len(l)][3].message
                  /\ l[Len(l)][3].isError => call.lastError = l[Len(l)][3]
            /\ call.pc # "returned" => oks = {}
            /\ \A i \in fs :
                  IF l[i][2] < call.maxRetries
                  THEN /\ i < Len(l)
                       /\ l[i + 1] = <<"sleep", l[i][2]>>
                  ELSE /\ i = Len(l)
                       /\ call.pc = "thrown"

\* C5 witness: a call rejected after attempts that failed with different
\* errors, the last thrown value not being an Error object.
C5_Witness ==
    /\ Started(StandaloneCall)
    /\ calls[StandaloneCall].pc = "thrown"
    /\ LET l == log[StandaloneCall]
       IN  /\ ~l[Len(l)][3].isError
           /\ \E i \in EventsOf(l, "fail") : l[i][3].message # l[Len(l)][3].message

\* The adjustment of each factor as the scoring table gives it, the penalty
\* row first.
LiquidityAdjustment(a, crit) ==
    IF a.availableLiquidity < crit.minLiquidity THEN -40
    ELSE IF a.availableLiquidity > 100000000 THEN 10 ELSE 0

APRAdjustment(a, crit) ==
    IF a.borrowAPR > crit.maxAcceptableAPR THEN -30
    ELSE IF a.borrowAPR < 300 THEN 15
    ELSE IF a.borrowAPR < 500 THEN 5 ELSE 0

BufferAdjustment(m, crit) ==
    IF m.liquidationThreshold - m.maxLTV < crit.minLiquidationBuffer THEN -25 ELSE 5

LTVAdjustment(m) ==
    IF m.maxLTV >= 8000 THEN 5 ELSE IF m.maxLTV < 6000 THEN -10 ELSE 0

ProtocolAdjustment(m) ==
    CASE m.protocol = "Aave" -> 10 [] m.protocol = "Morpho" -> 5 [] OTHER -> 0

ChainAdjustment(m) ==
    CASE m.chain = "Ethereum" -> 5 [] m.chain = "Arbitrum" -> 3 [] OTHER -> 0

TableSum(m, a, crit) ==
    100 + LiquidityAdjustment(a, crit) + APRAdjustment(a, crit)
        + BufferAdjustment(m, crit) + LTVAdjustment(m)
        + ProtocolAdjustment(m) + ChainAdjustment(m)

Clamped(x) == IF x < 0 THEN 0 ELSE IF x > 100 THEN 100 ELSE x

\* Every bonus row of the table holds for the pair and no penalty row does.
EveryBonusFires(m, a, crit) ==
    /\ a.availableLiquidity > 100000000
    /\ a.availableLiquidity >= crit.minLiquidity
    /\ a.borrowAPR < 300
    /\ a.borrowAPR <= crit.maxAcceptableAPR
    /\ m.liquidationThreshold - m.maxLTV >= crit.minLiquidationBuffer
    /\ m.maxLTV >= 8000
    /\ m.protocol = "Aave"
    /\ m.chain = "Ethereum"

\* Every penalty row of the table holds for the pair.
EveryPenaltyFires(m, a, crit) ==
    /\ a.availableLiquidity < crit.minLiquidity
    /\ a.borrowAPR > crit.maxAcceptableAPR
    /\ m.liquidationThreshold - m.maxLTV < crit.minLiquidationBuffer
    /\ m.maxLTV < 6000

\* C6: every recommendation analyzeMarkets returns has 0 <= score <= 100;
\* a pair for which every bonus fires sums to 150 and is returned with 100,
\* a pair for which every penalty fires is returned with a score in range
\* (0 when neither protocol nor chain adds a bonus).
C6_ScoreInRange ==
    analyzed =>
        \A i \in 1..Len(recommendations) :
            LET r == recommendations[i]
            IN  /\ 0 <= r.score
                /\ r.score <= 100
                /\ EveryBonusFires(r.market, r.borrowAsset, criteria) =>
                      /\ TableSum(r.market, r.borrowAsset, criteria) = 150
                      /\ r.score = 100
                /\ ( /\ EveryPenaltyFires(r.market, r.borrowAsset, criteria)
                     /\ r.market.protocol = "Fluid"
                     /\ r.market.chain \in {"Optimism", "Polygon"} ) =>
                      r.score = 0

\* C6 witness: analyzeMarkets has returned a recommendation for a pair for
\* which every bonus fires.
C6_Witness ==
    /\ analyzed
    /\ \E i \in 1..Len(recommendations) :
          /\ EveryBonusFires(recommendations[i].market,
                             recommendations[i].borrowAsset, criteria)
          /\ recommendations[i].score = 100

\* Position <<mi, ai>> comes before <<mj, aj>> in the input.
InputBefore(p, q) == p[1] < q[1] \/ (p[1] = q[1] /\ p[2] < q[2])

\* C7: the list analyzeMarkets returns is sorted by non-increasing score, and
\* recommendations with equal score appear in input order (markets in list
\* order, then each market's borrowAssets in list order).
C7_SortedStable ==
    analyzed =>
        \A i \in 1..Len(recommendations) : \A j \in 1..Len(recommendations) :
            i < j =>
                /\ recommendations[i].score >= recommendations[j].score
                /\ recommendations[i].score = recommendations[j].score =>
                      InputBefore(recommendations[i].src, recommendations[j].src)

\* C7 witness: a returned list in which the sort moved a pair ahead of an
\* earlier input pair, and which holds two pairs of equal score.
C7_Witness ==
    /\ analyzed
    /\ \E i \in 1..Len(recommendations) : \E j \in 1..Len(recommendations) :
          /\ i < j
          /\ InputBefore(recommendations[j].src, recommendations[i].src)
    /\ \E i \in 1..Len(recommendations) : \E j \in 1..Len(recommendations) :
          /\ i < j
          /\ recommendations[i].score = recommendations[j].score

\* The (market, borrowAsset) positions of the input.
InputPairs ==
    {<<mi, ai>> : mi \in 1..Len(markets), ai \in 1..(MaxAssets + 1)} \cap
    {p \in (1..Len(markets)) \X (1..(MaxAssets + 1)) :
        p[2] <= Len(markets[p[1]].borrowAssets)}

RECURSIVE TotalBorrowAssets(_, _)
TotalBorrowAssets(ms, i) ==
    IF i > Len(ms) THEN 0
    ELSE Len(ms[i].borrowAssets) + TotalBorrowAssets(ms, i + 1)

\* C8: analyzeMarkets returns exactly one recommendation for every
\* (market, borrowAsset) pair of its input and no other; the output length is
\* the sum of the markets' borrowAssets lengths, so it is empty for an empty
\* input and for markets without borrow assets.
C8_OnePerPair ==
    analyzed =>
        /\ Len(recommendations) = TotalBorrowAssets(markets, 1)
        /\ {recommendations[i].src : i \in 1..Len(recommendations)} = InputPairs
        /\ \A i \in 1..Len(recommendations) : \A j \in 1..Len(recommendations) :
              recommendations[i].src = recommendations[j].src => i = j
        /\ \A i \in 1..Len(recommendations) :
              LET r == recommendations[i]
              IN  /\ r.src \in InputPairs
                  /\ r.market = markets[r.src[1]]
                  /\ r.borrowAsset = markets[r.src[1]].borrowAssets[r.src[2]]
        /\ markets = <<>> => recommendations = <<>>
        /\ (\A m \in 1..Len(markets) : markets[m].borrowAssets = <<>>)
              => recommendations = <<>>

\* C8 witness: an analysed list with a market that has no borrow asset and a
\* market that has two.
C8_Witness ==
    /\ analyzed
    /\ \E m \in 1..Len(markets) : markets[m].borrowAssets = <<>>
    /\ \E m \in 1..Len(markets) : Len(markets[m].borrowAssets) = 2
    /\ Len(recommendations) = 2

\* C9: for every pair and criteria the score is 100 plus one adjustment per
\* factor, the penalty row taking precedence within a factor, clamped to
\* [0, 100].
C9_ScoreTable ==
    analyzed =>
        \A i \in 1..Len(recommendations) :
            LET r == recommendations[i]
            IN  r.score = Clamped(TableSum(r.market, r.borrowAsset, criteria))

\* C9 witness: a pair whose liquidity is above 1,000,000 and below
\* minLiquidity and whose APR is below 3 and above maxAcceptableAPR (the
\* penalty rows take precedence), with a score the clamp leaves alone.
C9_Witness ==
    /\ analyzed
    /\ \E i \in 1..Len(recommendations) :
          LET r == recommendations[i]
          IN  /\ r.borrowAsset.availableLiquidity > 100000000
              /\ r.borrowAsset.availableLiquidity < criteria.minLiquidity
              /\ r.borrowAsset.borrowAPR < 300
              /\ r.borrowAsset.borrowAPR > criteria.maxAcceptableAPR
              /\ r.score > 0
              /\ r.score < 100
              /\ r.score = TableSum(r.market, r.borrowAsset, criteria)

\* The warnings the table's penalty rows call for, in factor order.
ExpectedWarnings(m, a, crit) ==
    (IF a.availableLiquidity < crit.minLiquidity
     THEN <<"Low liquidity">> ELSE <<>>) \o
    (IF a.borrowAPR > crit.maxAcceptableAPR
     THEN <<"High borrow rate">> ELSE <<>>) \o
    (IF m.liquidationThreshold - m.maxLTV < crit.minLiquidationBuffer
     THEN <<"Tight liquidation buffer">> ELSE <<>>) \o
    (IF m.maxLTV < 6000 THEN <<"Low capital efficiency">> ELSE <<>>)

InList(x, l) == \E i \in 1..Len(l) : l[i] = x

\* C10: when availableLiquidity < minLiquidity and borrowAPR >
\* maxAcceptableAPR both the -40 and the -30 are applied and warnings holds
\* both warnings; warnings holds exactly one entry per penalty that fired,
\* and reasons holds no entry of a factor whose penalty fired.
C10_PenaltiesAndWarnings ==
    analyzed =>
        \A i \in 1..Len(recommendations) :
            LET r    == recommendations[i]
                m    == r.market
                a    == r.borrowAsset
                low  == a.availableLiquidity < criteria.minLiquidity
                high == a.borrowAPR > criteria.maxAcceptableAPR
            IN  /\ r.warnings = ExpectedWarnings(m, a, criteria)
                /\ (low /\ high) =>
                      /\ InList("Low liquidity", r.warnings)
                      /\ InList("High borrow rate", r.warnings)
                      /\ r.score = Clamped(100 - 40 - 30
                                           + BufferAdjustment(m, criteria)
                                           + LTVAdjustment(m)
                                           + ProtocolAdjustment(m)
                                           + ChainAdjustment(m))
                /\ \A k \in 1..Len(r.reasons) :
                      /\ r.reasons[k] \notin {"Low liquidity", "High borrow rate",
                                              "Tight liquidation buffer",
                                              "Low capital efficiency"}
                      /\ low => r.reasons[k] \notin {"Excellent liquidity",
                                                     "Good liquidity"}
                      /\ high => r.reasons[k] \notin {"Excellent borrow rate",
                                                      "Good borrow rate",
                                                      "Moderate borrow rate"}
                      /\ InList("Tight liquidation buffer", r.warnings)
                            => r.reasons[k] # "Safe liquidation buffer"
                      /\ InList("Low capital efficiency", r.warnings)
                            => r.reasons[k] # "High capital efficiency"

\* C10 witness: a pair with availableLiquidity 5000 < minLiquidity 10000 and
\* borrowAPR 20 > maxAcceptableAPR 15, whose score shows both penalties.
C10_Witness ==
    /\ analyzed
    /\ criteria = DefaultCriteria
    /\ \E i \in 1..Len(recommendations) :
          LET r == recommendations[i]
          IN  /\ r.borrowAsset.availableLiquidity = 500000
              /\ r.borrowAsset.borrowAPR = 2000
              /\ r.warnings = <<"Low liquidity", "High borrow rate">>
              /\ r.score = 50

\* Every task of fetchAllMarkets has settled: its withRetry returned or threw.
AllSettled == \A c \in DOMAIN calls : calls[c].pc \in {"returned", "thrown"}

IsMarket(m) ==
    /\ DOMAIN m = {"protocol", "chain", "collateral", "maxLTV",
                   "liquidationThreshold", "borrowAssets"}
    /\ m.protocol \in Protocol
    /\ m.chain \in Chain
    /\ m.collateral \in CollateralToken

\* C1: fetchAllMarkets never throws or rejects: whatever each fetchMarkets
\* call does on any attempt (returns a list or rejects), the joined promise
\* never rejects, it settles as soon as every task has settled, and the call
\* resolves with a list of markets.
C1_NeverRejects ==
    /\ aggPc # "rejected"
    /\ ~PromiseAllRejected(calls)
    /\ (aggPc = "joining" /\ AllSettled) => PromiseAllFulfilled(calls)
    /\ aggPc = "done" =>
          /\ DOMAIN allMarkets = 1..Len(allMarkets)
          /\ \A i \in 1..Len(allMarkets) : IsMarket(allMarkets[i])

\* C1 witness: fetchAllMarkets resolved although one task failed on every
\* attempt and another returned only after a rejected attempt.
C1_Witness ==
    /\ aggPc = "done"
    /\ \E c \in DOMAIN calls : calls[c].pc = "thrown"
    /\ \E c \in DOMAIN calls :
          /\ calls[c].pc = "returned"
          /\ EventsOf(log[c], "fail") # {}
    /\ allMarkets # <<>>

\* The tasks whose every attempt failed.
FailedTasks ==
    {c \in DOMAIN calls :
        /\ Cardinality(EventsOf(log[c], "fail")) = AggregatorMaxRetries + 1
        /\ EventsOf(log[c], "ok") = {}}

\* What a task's fetchMarkets returned, as the log recorded it.
Returned(c) ==
    IF EventsOf(log[c], "ok") = {} THEN <<>>
    ELSE log[c][CHOOSE i \in EventsOf(log[c], "ok") : TRUE][3].v

RECURSIVE CountBefore(_)
CountBefore(c) ==
    IF c <= 1 THEN 0 ELSE Len(Returned(c - 1)) + CountBefore(c - 1)

\* C2: when fetchAllMarkets resolves, whatever the order in which the tasks
\* completed, the result holds, task after task, every market each task
\* outside F returned (same count, same content); a task of F contributes
\* nothing and takes nothing away from a sibling.
C2_FailureIsolation ==
    aggPc = "done" =>
        /\ Len(allMarkets) = CountBefore(Len(Tasks) + 1)
        /\ \A c \in DOMAIN calls :
              /\ c \in FailedTasks <=> calls[c].pc = "thrown"
              /\ c \in FailedTasks => Returned(c) = <<>>
              /\ c \notin FailedTasks =>
                    /\ Returned(c) = AdapterResultNoFailure(c).v
                    /\ \A i \in 1..Len(Returned(c)) :
                          allMarkets[CountBefore(c) + i] = Returned(c)[i]

\* C2 witness: fetchAllMarkets resolved with the markets of a task placed
\* after a task whose every attempt failed, the result being shorter than
\* the list without failure.
C2_Witness ==
    /\ aggPc = "done"
    /\ \E f \in FailedTasks : \E c \in DOMAIN calls \ FailedTasks :
          /\ f < c
          /\ Returned(c) # <<>>
          /\ CountBefore(c) < Len(allMarkets)
          /\ allMarkets[CountBefore(c) + 1] = Returned(c)[1]
    /\ Len(allMarkets) < Len(Flatten([c \in 1..Len(Tasks) |->
                                        AdapterResultNoFailure(c).v]))

\* The list the same on-chain data yields when no RPC call fails.
NoFailureMarkets ==
    Flatten([c \in 1..Len(Tasks) |-> AdapterResultNoFailure(c).v])

\* s[i..] is a subsequence of t[j..].
RECURSIVE AssetsWithin(_, _, _, _)
AssetsWithin(s, t, i, j) ==
    \/ i > Len(s)
    \/ /\ j <= Len(t)
       /\ \/ s[i] = t[j] /\ AssetsWithin(s, t, i + 1, j + 1)
          \/ AssetsWithin(s, t, i, j + 1)

\* m is the market full, possibly with borrow assets left out; only an Aave
\* market may have assets left out.
SameOrFewerAssets(m, full) ==
    /\ m.protocol = full.protocol
    /\ m.chain = full.chain
    /\ m.collateral = full.collateral
    /\ m.maxLTV = full.maxLTV
    /\ m.liquidationThreshold = full.liquidationThreshold
    /\ AssetsWithin(m.borrowAssets, full.borrowAssets, 1, 1)
    /\ m.protocol # "Aave" => m = full

RECURSIVE MarketsWithin(_, _, _, _)
MarketsWithin(s, t, i, j) ==
    \/ i > Len(s)
    \/ /\ j <= Len(t)
       /\ \/ SameOrFewerAssets(s[i], t[j]) /\ MarketsWithin(s, t, i + 1, j + 1)
          \/ MarketsWithin(s, t, i, j + 1)

\* C3, as stated: under every pattern of RPC failures each market of the
\* returned list is identical to a market of the no-failure list.
C3_AsStated ==
    aggPc = "done" =>
        \A i \in 1..Len(allMarkets) :
            \E j \in 1..Len(NoFailureMarkets) : allMarkets[i] = NoFailureMarkets[j]

\* C3, amended: under every pattern of RPC failures the returned list is the
\* no-failure list with markets left out and, for Aave markets only, borrow
\* assets left out; what remains is unaltered (same maxLTV and
\* liquidationThreshold, every remaining borrow asset identical, order kept).
C3_OnlyShortens ==
    aggPc = "done" =>
        MarketsWithin(allMarkets, NoFailureMarkets, 1, 1)

\* C3 witness: a returned Aave market that lacks some borrow assets of its
\* no-failure counterpart, in a list that also lacks a market.
C3_Witness ==
    /\ aggPc = "done"
    /\ Len(allMarkets) < Len(NoFailureMarkets)
    /\ \E i \in 1..Len(allMarkets) : \E j \in 1..Len(NoFailureMarkets) :
          /\ allMarkets[i].protocol = "Aave"
          /\ SameOrFewerAssets(allMarkets[i], NoFailureMarkets[j])
          /\ Len(allMarkets[i].borrowAssets) > 0
          /\ Len(allMarkets[i].borrowAssets) < Len(NoFailureMarkets[j].borrowAssets)

\* C11: for a market with liquidationThreshold < maxLTV and criteria with
\* minLiquidationBuffer >= 0, analyzeMarkets completes (it yields its one
\* recommendation per pair) and every recommendation for that market carries
\* the liquidation-buffer warning and none the safe-buffer reason.
C11_NegativeBufferFlagged ==
    analyzed =>
        /\ Len(recommendations) = TotalBorrowAssets(markets, 1)
        /\ \A i \in 1..Len(recommendations) :
              LET r == recommendations[i]
              IN  ( /\ r.market.liquidationThreshold < r.market.maxLTV
                    /\ criteria.minLiquidationBuffer >= 0 ) =>
                      /\ InList("Tight liquidation buffer", r.warnings)
                      /\ ~InList("Safe liquidation buffer", r.reasons)
                      /\ 0 <= r.score /\ r.score <= 100

\* C11 witness: an analysed market with liquidationThreshold 200 basis points
\* below maxLTV under minLiquidationBuffer = 0, flagged.
C11_Witness ==
    /\ analyzed
    /\ criteria.minLiquidationBuffer = 0
    /\ Len(recommendations) = 1
    /\ recommendations[1].market.liquidationThreshold
          = recommendations[1].market.maxLTV - 200
    /\ InList("Tight liquidation buffer", recommendations[1].warnings)

\* The recommendation of the input position p.
RecAt(p) == recommendations[CHOOSE i \in 1..Len(recommendations) :
                               recommendations[i].src = p]

TightBuffer(m) == m.liquidationThreshold - m.maxLTV < criteria.minLiquidationBuffer

Settled == fetch.pc = "settled"

\* The adapter has the chain configured and an address, market or vault for
\* the collateral on it.
Supported == RunKeys(fetch.variant, collateral, fetch.chain) # {}

\* The read with this key yields its value, under the adapter's retries.
ReadSucceeds(k) ==
    IF WrapOf(fetch.variant, k).wrapped
    THEN fetch.rpc[k] <= WrapOf(fetch.variant, k).maxRetries
    ELSE fetch.rpc[k] = 0

IsAave == fetch.variant \in {"Aave", "AaveRetry"}

\* C12: fetchMarkets of every adapter never throws or rejects: for an
\* unsupported chain or collateral, and for contract reads that fail on every
\* attempt, it resolves with a list, which is empty when nothing could be
\* fetched; the list is the one fetchMarkets is specified to return.
C12_AdaptersNeverReject ==
    Settled =>
        /\ fetch.outcome.state = "fulfilled"
        /\ \A i \in 1..Len(fetch.outcome.value) : IsMarket(fetch.outcome.value[i])
        /\ ~Supported => fetch.outcome.value = <<>>
        /\ (\A k \in RunKeys(fetch.variant, collateral, fetch.chain) : ~ReadSucceeds(k))
              => fetch.outcome.value = <<>>
        /\ fetch.variant \in {"Aave", "Morpho", "Fluid"} =>
              fetch.outcome.value =
                  AdapterFetchMarkets(fetch.variant, collateral, fetch.chain, fetch.rpc)

\* C12 witness: a Fluid call whose vault reads failed on all four attempts
\* resolved with the empty list.
C12_Witness ==
    /\ Settled
    /\ fetch.variant = "Fluid"
    /\ Supported
    /\ \A k \in RunKeys(fetch.variant, collateral, fetch.chain) :
          fetch.rpc[k] = FluidMaxRetries + 1
    /\ fetch.outcome.state = "fulfilled"
    /\ fetch.outcome.value = <<>>
    /\ \E i \in 1..Len(fetch.outcome.effects) : fetch.outcome.effects[i][1] = "sleep"

\* C15, as stated: every market an adapter returns has
\* 0 <= maxLTV <= liquidationThreshold <= 1, whatever basis points in
\* [0, 10000] the Aave data provider returns.
C15_AsStated ==
    Settled =>
        \A i \in 1..Len(fetch.outcome.value) :
            LET m == fetch.outcome.value[i]
            IN  /\ 0 <= m.maxLTV
                /\ m.maxLTV <= m.liquidationThreshold
                /\ m.liquidationThreshold <= 10000

\* C15, amended: every market an adapter returns has maxLTV and
\* liquidationThreshold in [0, 1]; maxLTV <= liquidationThreshold holds for
\* every Morpho and Fluid market, and for an Aave market exactly when the
\* data provider's ltv <= liquidationThreshold, both values being passed on
\* as they were read.
C15_LTVRange ==
    Settled =>
        \A i \in 1..Len(fetch.outcome.value) :
            LET m == fetch.outcome.value[i]
            IN  /\ 0 <= m.maxLTV /\ m.maxLTV <= 10000
                /\ 0 <= m.liquidationThreshold /\ m.liquidationThreshold <= 10000
                /\ m.protocol \in {"Morpho", "Fluid"}
                      => m.maxLTV <= m.liquidationThreshold
                /\ m.protocol = "Aave" =>
                      /\ m.maxLTV = onchain.ltv
                      /\ m.liquidationThreshold = onchain.liquidationThreshold

\* C15 witness: an Aave market returned with maxLTV 0.80 above its
\* liquidationThreshold 0.75, as the data provider answered.
C15_Witness ==
    /\ Settled
    /\ IsAave
    /\ Len(fetch.outcome.value) = 1
    /\ fetch.outcome.value[1].maxLTV = 8000
    /\ fetch.outcome.value[1].liquidationThreshold = 7500

\* C16, as stated: every borrow asset an adapter returns has
\* availableLiquidity >= 0 and borrowAPR >= 0, for all unsigned integers the
\* contracts return.
C16_AsStated ==
    Settled =>
        \A i \in 1..Len(fetch.outcome.value) :
            \A j \in 1..Len(fetch.outcome.value[i].borrowAssets) :
                LET a == fetch.outcome.value[i].borrowAssets[j]
                IN  a.availableLiquidity >= 0 /\ a.borrowAPR >= 0

\* The symbols of the configured assets whose read succeeded, in order.
RECURSIVE FetchedSymbols(_, _)
FetchedSymbols(assets, i) ==
    IF i > Len(assets) THEN <<>>
    ELSE (IF ReadSucceeds(assets[i]) THEN <<assets[i]>> ELSE <<>>)
         \o FetchedSymbols(assets, i + 1)

CallsOf(effects) == {i \in 1..Len(effects) : effects[i][1] = "call"}

\* C18: in both Aave adapters, when the collateral configuration was read,
\* fetchMarkets returns the market with exactly the configured assets whose
\* fetch succeeded, in configured order, each with the values read; a failing
\* asset is left out and the assets after it are still fetched.
C18_AaveAssetsIndependent ==
    (Settled /\ IsAave /\ Supported /\ ReadSucceeds("config")) =>
        LET assets == AaveBorrowAssets(fetch.chain)
            eff    == fetch.outcome.effects
        IN  /\ Len(fetch.outcome.value) = 1
            /\ LET got == fetch.outcome.value[1].borrowAssets
               IN  /\ [j \in 1..Len(got) |-> got[j].symbol] = FetchedSymbols(assets, 1)
                   /\ \A j \in 1..Len(got) :
                         got[j] = AaveBorrowAsset(fetch.chain, got[j].symbol)
            /\ \A a \in 1..Len(assets) :
                  \E i \in CallsOf(eff) : eff[i][2] = assets[a]
            /\ \A a \in 1..Len(assets) : \A b \in 1..Len(assets) :
                  a < b => \A i \in CallsOf(eff) : \A k \in CallsOf(eff) :
                              (eff[i][2] = assets[a] /\ eff[k][2] = assets[b]) => i < k

\* C18 witness: the second configured asset failed on every attempt of the
\* retrying adapter and the market holds the first, third and fourth.
C18_Witness ==
    /\ Settled
    /\ fetch.variant = "AaveRetry"
    /\ Len(fetch.outcome.value) = 1
    /\ fetch.rpc["USDT"] = AaveRetryAssetRetries + 1
    /\ LET got == fetch.outcome.value[1].borrowAssets
       IN  [j \in 1..Len(got) |-> got[j].symbol] = <<"USDC", "DAI", "WETH">>

\* C19, as stated: in every adapter a fetchMarkets call that reads contracts
\* obtains its connection from getProvider(chain), and a read that fails
\* once and succeeds when repeated still yields its market or borrow asset.
C19_AsStated ==
    (Settled /\ Supported) =>
        /\ fetch.outcome.effects[1] = <<"getProvider", fetch.chain>>
        /\ (\A k \in RunKeys(fetch.variant, collateral, fetch.chain) : fetch.rpc[k] <= 1)
              => fetch.outcome.value =
                    AdapterRun(fetch.variant, collateral, fetch.chain,
                               [k \in RunKeys(fetch.variant, collateral, fetch.chain)
                                   |-> 0]).value

\* C20, as stated: when the chain or the collateral is not supported by the
\* adapter, fetchMarkets returns [] and has issued no liveness probe, no
\* contract call and no backoff sleep.
C20_AsStated ==
    (Settled /\ ~Supported) =>
        /\ fetch.outcome.value = <<>>
        /\ fetch.outcome.effects = <<>>

\* Every configured endpoint of the call's chain has been probed by the
\* call and failed or timed out, no probe of the call succeeded and none is
\* pending.
EveryProbeFailed(call) ==
    /\ \A e \in 1..Len(RPC_ENDPOINTS[call.chain]) :
          \E i \in 1..Len(call.probes) :
              /\ call.probes[i].endpoint = RPC_ENDPOINTS[call.chain][e]
              /\ call.probes[i].outcome = "failed"
    /\ \A i \in 1..Len(call.probes) : call.probes[i].outcome = "failed"

\* C13: when the liveness probe of every configured endpoint of the chain
\* has failed or timed out, getProvider(chain) has not thrown: it has
\* returned a connection to the first configured endpoint, and that
\* connection is in no chain's cache.
C13_FallbackToFirstEndpoint ==
    \A id \in DOMAIN getCalls :
        /\ getCalls[id].pc \in {"verifying", "probing", "returned"}
        /\ EveryProbeFailed(getCalls[id]) =>
              /\ getCalls[id].pc = "returned"
              /\ getCalls[id].result.endpoint = RPC_ENDPOINTS[getCalls[id].chain][1]
              /\ getCalls[id].result.by = id
              /\ \A chain \in DOMAIN providerCache :
                    providerCache[chain] # getCalls[id].result

\* C13 witness: a call that found a cached connection, whose verification
\* and then all five endpoint probes failed, has returned, while a later
\* call has put its own connection into the cache.
C13_Witness ==
    \E id \in DOMAIN getCalls :
        /\ EveryProbeFailed(getCalls[id])
        /\ Len(getCalls[id].probes) = Len(RPC_ENDPOINTS[getCalls[id].chain]) + 1
        /\ getCalls[id].pc = "returned"
        /\ MapHas(providerCache, getCalls[id].chain)

\* The entries of fetchAllMarkets' result whose chain is the given one.
RestrictedTo(ms, chain) == SelectSeq(ms, LAMBDA m : m.chain = chain)

\* C14, as stated: under the same per-call behaviour of the adapters,
\* including a fetchMarkets call that fails on its first attempt and succeeds
\* when repeated, fetchMarketsByChain(collateral, chain) returns the entries
\* of fetchAllMarkets(collateral) whose chain is that chain.
C14_AsStated ==
    (aggPc = "done" /\ byChain.pc = "done") =>
        byChain.allMarkets = RestrictedTo(allMarkets, byChain.chain)

\* The call found a cached connection and its verification failed.
CachedProbeFailed(call) ==
    call.held # NoProvider /\ call.probes[1].outcome = "failed"

\* The endpoints of the candidates the call has probed after the cached
\* connection, in the order of the probes.
CandidatesProbed(call) ==
    [i \in 1..(Len(call.probes) - 1) |-> call.probes[i + 1].endpoint]

IsPrefix(s, t) == Len(s) <= Len(t) /\ \A i \in 1..Len(s) : s[i] = t[i]

\* C21, as stated: when the cached connection of a chain fails its liveness
\* probe, getProvider probes first the endpoint that was last verified good
\* for the chain before the call (the cached connection's), then the
\* remaining configured endpoints in configured order.
C21_AsStated ==
    \A id \in DOMAIN getCalls :
        CachedProbeFailed(getCalls[id]) =>
            IsPrefix(CandidatesProbed(getCalls[id]),
                     OrderedEndpoints(getCalls[id].held.endpoint,
                                      RPC_ENDPOINTS[getCalls[id].chain]))

LastProbe(call) == call.probes[Len(call.probes)]

\* C22: when a candidate's liveness probe succeeds, getProvider returns the
\* connection to that candidate, the connection becomes the chain's cached
\* one and its endpoint the chain's last-good endpoint, and the call probes
\* no further candidate: it has returned and changes no more.
C22_ProbeSuccessCaches ==
    [][\A id \in DOMAIN getCalls :
          /\ (getCalls[id].pc = "probing" /\ getCalls'[id].pc = "returned"
                  /\ LastProbe(getCalls'[id]).outcome = "ok") =>
                LET call     == getCalls[id]
                    endpoint == call.list[call.idx]
                IN  /\ getCalls'[id].result.endpoint = endpoint
                    /\ getCalls'[id].result.by = id
                    /\ LastProbe(call).endpoint = endpoint
                    /\ Len(getCalls'[id].probes) = Len(call.probes)
                    /\ MapHas(providerCache', call.chain)
                    /\ providerCache'[call.chain] = getCalls'[id].result
                    /\ MapHas(lastSuccessfulEndpoint', call.chain)
                    /\ lastSuccessfulEndpoint'[call.chain] = endpoint
          /\ getCalls[id].pc = "returned" => getCalls'[id] = getCalls[id]
      ]_vars

\* C22 witness: a call whose first two candidates failed has returned the
\* connection to the third, which is the cached one and the last-good one.
C22_Witness ==
    \E id \in DOMAIN getCalls :
        LET call == getCalls[id]
        IN  /\ call.pc = "returned"
            /\ call.held = NoProvider
            /\ Len(call.probes) = 3
            /\ LastProbe(call).outcome = "ok"
            /\ call.result.endpoint = RPC_ENDPOINTS[call.chain][3]
            /\ MapHas(providerCache, call.chain)
            /\ providerCache[call.chain] = call.result
            /\ lastSuccessfulEndpoint[call.chain] = call.result.endpoint

\* The connections some call has seen fail their verification.
FailedConnections(gc) ==
    {gc[id].held : id \in {i \in DOMAIN gc : CachedProbeFailed(gc[i])}}

\* C23: the cache holds at most one connection per chain (it is a map from
\* chains); when getProvider sees the cached connection's probe fail, the
\* chain's entries are gone before any candidate's probe is answered; and a
\* connection whose verification failed is never in the cache again nor
\* taken from it by a call made later, though a new connection to the same
\* endpoint may be.
C23_FailedConnectionLeavesCache ==
    [][/\ DOMAIN providerCache' \subseteq Chain
       /\ \A id \in DOMAIN getCalls :
             (getCalls[id].pc = "verifying" /\ getCalls'[id].pc # "verifying"
                  /\ getCalls'[id].probes[1].outcome = "failed") =>
                /\ ~MapHas(providerCache', getCalls[id].chain)
                /\ ~MapHas(lastSuccessfulEndpoint', getCalls[id].chain)
                /\ getCalls'[id].pc = "probing"
                /\ Len(getCalls'[id].probes) = 2
                /\ LastProbe(getCalls'[id]).outcome = "pending"
       /\ \A chain \in DOMAIN providerCache' :
             providerCache'[chain] \notin FailedConnections(getCalls')
       /\ Len(getCalls') > Len(getCalls) =>
             getCalls'[Len(getCalls')].held \notin FailedConnections(getCalls)
      ]_vars

\* C23 witness: a call saw the cached connection fail; a later call found
\* in the cache, and returned, a different connection to the same endpoint,
\* cached by a new successful probe.
C23_Witness ==
    \E i \in DOMAIN getCalls : \E j \in DOMAIN getCalls :
        /\ i < j
        /\ CachedProbeFailed(getCalls[i])
        /\ getCalls[j].pc = "returned"
        /\ getCalls[j].held # NoProvider
        /\ getCalls[j].result = getCalls[j].held
        /\ getCalls[j].result.endpoint = getCalls[i].held.endpoint
        /\ getCalls[j].result # getCalls[i].held

\* The connection was constructed by a call of the model whose probe of it
\* succeeded.
Verified(provider) ==
    /\ provider.by \in DOMAIN getCalls
    /\ getCalls[provider.by].result = provider
    /\ LastProbe(getCalls[provider.by]).outcome = "ok"
    /\ LastProbe(getCalls[provider.by]).endpoint = provider.endpoint
    /\ provider.pass # "fallback"

\* C24: under every interleaving of getProvider and clearProviderCache
\* calls, at every suspension point a chain's cached connection and last-good
\* endpoint are both absent or both present, naming the same endpoint, one
\* whose probe succeeded; and the cache stays usable: a call made now would
\* start verifying a real connection or probing the first of a non-empty
\* list of candidates, and every suspended call returns a connection as soon
\* as its pending probe succeeds.
C24_CacheConsistent ==
    /\ DOMAIN providerCache = DOMAIN lastSuccessfulEndpoint
    /\ \A chain \in DOMAIN providerCache :
          /\ providerCache[chain].endpoint = lastSuccessfulEndpoint[chain]
          /\ InSeq(lastSuccessfulEndpoint[chain], RPC_ENDPOINTS[chain])
          /\ Verified(providerCache[chain])
    /\ \A chain \in ProviderChains :
          IF MapHas(providerCache, chain)
          THEN VerifyingCached(chain, providerCache[chain]).held # NoProvider
          ELSE LET call == ProbingFrom(chain, lastSuccessfulEndpoint, <<>>)
               IN  /\ call.list = RPC_ENDPOINTS[chain]
                   /\ LastProbe(call).endpoint = RPC_ENDPOINTS[chain][1]
    /\ \A id \in DOMAIN getCalls :
          getCalls[id].pc # "returned" =>
              ENABLED (CachedProbeResolves(id) \/ ProbeResolves(id))

\* C24 witness: two calls for one chain each probed and cached a connection
\* of their own (the later write replaced the earlier), while a third call
\* for the chain is suspended.
C24_Witness ==
    \E i \in DOMAIN getCalls : \E j \in DOMAIN getCalls : \E k \in DOMAIN getCalls :
        /\ i # j
        /\ getCalls[i].chain = getCalls[j].chain
        /\ getCalls[k].chain = getCalls[i].chain
        /\ getCalls[i].pc = "returned" /\ getCalls[i].result.by = i
        /\ Verified(getCalls[i].result)
        /\ getCalls[j].pc = "returned" /\ getCalls[j].result.by = j
        /\ MapHas(providerCache, getCalls[j].chain)
        /\ providerCache[getCalls[j].chain] = getCalls[j].result
        /\ getCalls[k].pc # "returned"

\* C30, as stated: a getProvider call removes a chain's cache entry only
\* when the connection it probed is still the cached one; a connection that
\* another call verified and cached meanwhile is left in place.
C30_AsStated ==
    \A id \in DOMAIN getCalls :
        getCalls[id].evicted \in {NoProvider, getCalls[id].held}

\* C30, amended: when a call sees the probe of the connection it took from
\* the cache fail, it removes the chain's cached connection and last-good
\* endpoint whatever they hold at that moment, a connection another call
\* verified and cached meanwhile included; the other chains' entries and the
\* other calls, with the connections they returned, are untouched.
C30_RemovesWhateverIsCached ==
    [][\A id \in DOMAIN getCalls :
          (getCalls[id].pc = "verifying" /\ getCalls'[id].pc # "verifying"
               /\ getCalls'[id].probes[1].outcome = "failed") =>
             /\ getCalls'[id].evicted = Evicted(providerCache, getCalls[id].chain)
             /\ ~MapHas(providerCache', getCalls[id].chain)
             /\ ~MapHas(lastSuccessfulEndpoint', getCalls[id].chain)
             /\ \A chain \in DOMAIN providerCache \ {getCalls[id].chain} :
                   /\ MapHas(providerCache', chain)
                   /\ providerCache'[chain] = providerCache[chain]
                   /\ lastSuccessfulEndpoint'[chain] = lastSuccessfulEndpoint[chain]
             /\ \A j \in DOMAIN getCalls \ {id} : getCalls'[j] = getCalls[j]
      ]_vars

\* C30 witness: call A took a connection from the cache; before A's probe
\* of it failed, call B verified and cached a new connection for the chain
\* and returned it; A's failure removed B's entry.
C30_Witness ==
    \E a \in DOMAIN getCalls : \E b \in DOMAIN getCalls :
        /\ a # b
        /\ CachedProbeFailed(getCalls[a])
        /\ getCalls[a].evicted # NoProvider
        /\ getCalls[a].evicted # getCalls[a].held
        /\ getCalls[b].pc = "returned"
        /\ getCalls[b].result = getCalls[a].evicted
        /\ getCalls[b].result.by = b
        /\ ~MapHas(providerCache, getCalls[a].chain)
        /\ ~MapHas(lastSuccessfulEndpoint, getCalls[a].chain)

\* C25, as stated: every getProvider call eventually returns, also when a
\* liveness probe never responds: the probe of the cached connection and
\* the probe of each candidate are cut off and treated as a failure.
C25_AsStated ==
    \A id \in 1..MaxLiveCalls :
        (id \in DOMAIN getCalls) ~>
            (id \in DOMAIN getCalls /\ getCalls[id].pc = "returned")

\* C26: fetchAllMarkets starts the first attempt of every adapter x chain
\* task in one go, before any task has settled, and it returns only when
\* every task, retries included, has settled.
C26_FanOutThenJoin ==
    [][/\ (aggPc = "idle" /\ aggPc' # "idle") =>
             /\ DOMAIN calls' = 1..Len(Tasks)
             /\ \A c \in DOMAIN calls' :
                   /\ calls'[c].pc = "attempt"
                   /\ calls'[c].attempt = 0
                   /\ log'[c] = <<<<"call", 0>>>>
       /\ (aggPc = "joining" /\ aggPc' # "joining") =>
             /\ AllSettled
             /\ calls' = calls
             /\ log' = log
       /\ aggPc' \in {"done", "rejected"} =>
             \A c \in 1..Len(Tasks) :
                 c \in DOMAIN calls' /\ calls'[c].pc \in {"returned", "thrown"}
      ]_vars

\* C26 witness: fetchAllMarkets has returned after one task went through
\* two sleeps and succeeded on its third attempt while another task's three
\* attempts all failed.
C26_Witness ==
    /\ aggPc = "done"
    /\ \E c \in DOMAIN calls : \E f \in DOMAIN calls :
          /\ calls[c].pc = "returned"
          /\ Cardinality(EventsOf(log[c], "sleep")) = AggregatorMaxRetries
          /\ calls[f].pc = "thrown"

\* The place of a market's adapter x chain pair in registration order.
TaskIndexOf(m) ==
    CHOOSE c \in 1..Len(Tasks) : Tasks[c] = [adapter |-> m.protocol, chain |-> m.chain]

\* C27: for every interleaving of the tasks, the list fetchAllMarkets
\* returns is the concatenation of the tasks' results in the order the
\* tasks were created: adapters in registration order (Aave, Morpho, Fluid)
\* and, within an adapter, chains in the order of getSupportedChains().
C27_RegistrationOrder ==
    aggPc = "done" =>
        /\ allMarkets = FlattenFrom([c \in 1..Len(Tasks) |-> Returned(c)], 1)
        /\ \A i \in 1..Len(allMarkets) : \A j \in 1..Len(allMarkets) :
              i < j => TaskIndexOf(allMarkets[i]) <= TaskIndexOf(allMarkets[j])
        /\ \A c \in 1..Len(Tasks) : \A d \in 1..Len(Tasks) :
              c < d =>
                  \/ Adapters[1] = Tasks[c].adapter
                  \/ Adapters[2] = Tasks[c].adapter /\ Tasks[d].adapter # Adapters[1]
                  \/ Adapters[3] = Tasks[d].adapter

\* C27 witness: the markets of an earlier task, which returned them only on
\* its third attempt, stand before the markets of a later task that
\* returned at once.
C27_Witness ==
    /\ aggPc = "done"
    /\ \E c \in DOMAIN calls : \E d \in DOMAIN calls :
          /\ c < d
          /\ Returned(c) # <<>> /\ Returned(d) # <<>>
          /\ Cardinality(EventsOf(log[c], "call")) = AggregatorMaxRetries + 1
          /\ Cardinality(EventsOf(log[d], "call")) = 1
          /\ allMarkets[CountBefore(c) + 1] = Returned(c)[1]
          /\ allMarkets[CountBefore(d) + 1] = Returned(d)[1]
          /\ CountBefore(c) < CountBefore(d)

\* C28: in one fetchAllMarkets call, fetchMarkets of a pair is invoked once
\* when that invocation returns a list, the empty list included; it is
\* invoked again only after an invocation rejected and the backoff sleep,
\* and at most three times in all.
C28_InvocationsPerPair ==
    \A c \in DOMAIN calls :
        LET l  == log[c]
            cs == EventsOf(l, "call")
        IN  /\ l[1] = <<"call", 0>>
            /\ Cardinality(cs) <= AggregatorMaxRetries + 1
            /\ \A k \in EventsOf(l, "ok") : k = Len(l)
            /\ \A k \in cs : k > 1 =>
                  /\ l[k - 1][1] = "sleep"
                  /\ l[k - 2][1] = "fail"
            /\ Cardinality(cs) =
                  Cardinality({k \in EventsOf(l, "fail") : k + 1 < Len(l)}) + 1
            /\ (Len(l) >= 2 /\ l[2][1] = "ok") =>
                  /\ Cardinality(cs) = 1
                  /\ calls[c].pc = "returned"

\* C28 witness: fetchAllMarkets has returned; one pair was invoked once and
\* returned the empty list, another was invoked three times.
C28_Witness ==
    /\ aggPc = "done"
    /\ \E c \in DOMAIN calls : \E d \in DOMAIN calls :
          /\ Len(log[c]) = 2
          /\ log[c][2][1] = "ok"
          /\ log[c][2][3].v = <<>>
          /\ Cardinality(EventsOf(log[d], "call")) = AggregatorMaxRetries + 1

\* C29: a recommendation without warnings has score exactly 100: without a
\* warning no penalty was applied and the liquidation buffer earned its +5,
\* so the sum before the clamp is at least 105; put the other way, a score
\* below 100 comes with at least one warning.
C29_NoWarningMeansFullScore ==
    analyzed =>
        \A i \in 1..Len(recommendations) :
            LET r   == recommendations[i]
                raw == RawEvaluation(r.market, r.borrowAsset, criteria)
            IN  /\ r.warnings = <<>> =>
                      /\ r.score = MaxScore
                      /\ raw.score >= StartScore + 5
                      /\ TableSum(r.market, r.borrowAsset, criteria) >= StartScore + 5
                /\ r.score < MaxScore => r.warnings # <<>>

\* C29 witness: a recommendation without warnings whose only bonus is the
\* liquidation buffer's: the sum before the clamp is exactly 105.
C29_Witness ==
    /\ analyzed
    /\ \E i \in 1..Len(recommendations) :
          LET r == recommendations[i]
          IN  /\ r.warnings = <<>>
              /\ RawEvaluation(r.market, r.borrowAsset, criteria).score = StartScore + 5
              /\ r.score = MaxScore

\* C29, on the ranking: recommendations without warnings all score 100, so
\* analyzeMarkets returns them ahead of every lower score and among
\* themselves in input order, whatever their APR and liquidity.
C29_RankedByInputOrder ==
    analyzed =>
        \A i \in 1..Len(recommendations) : \A j \in 1..Len(recommendations) :
            LET ri == recommendations[i]
                rj == recommendations[j]
            IN  (i < j /\ rj.warnings = <<>>) =>
                    /\ ri.score = MaxScore
                    /\ ri.warnings = <<>> => InputBefore(ri.src, rj.src)

\* Two recommendations without warnings, the one with the higher borrow
\* rate and the lower liquidity ranked first because it came first.
C29_RankedWitness ==
    /\ analyzed
    /\ \E i \in 1..Len(recommendations) : \E j \in 1..Len(recommendations) :
          LET ri == recommendations[i]
              rj == recommendations[j]
          IN  /\ i < j
              /\ ri.warnings = <<>> /\ rj.warnings = <<>>
              /\ ri.borrowAsset.borrowAPR > rj.borrowAsset.borrowAPR
              /\ ri.borrowAsset.availableLiquidity < rj.borrowAsset.availableLiquidity

=============================================================================
